---- MODULE Spec2Model ----
(***************************************************************************)
(* A model of the benchmark harness of alecgunny/benchmark-gke-pipeline:   *)
(*   - Pipeline (src/client_utils.py): enter, get, reset, cleanup/exit of  *)
(*     a list of producer processes, with the producers as concurrent      *)
(*     processes that emit packages and measurement tuples and answer      *)
(*     reset messages on their joinable control queue;                     *)
(*   - ServerInferenceMetric, ThreadedStatWriter, ServerStatsMonitor and   *)
(*     ClientStatsMonitor with its accessors (src/measurement.py);         *)
(*   - GCPFrameDataGenerator and the process of read_frames                *)
(*     (src/frame_reader.py);                                              *)
(*   - the receive loop of main and the shutdown of its inference client   *)
(*     (src/client.py).                                                    *)
(* None is modelled as 0 wherever a time origin t0 is held; real time      *)
(* origins are positive.                                                   *)
(***************************************************************************)
EXTENDS Integers, Sequences, FiniteSets, TLC

VARIABLES
  \* ---- Pipeline and its producer processes (src/client_utils.py) ----
  pstate,       \* per process: "initial" | "alive" | "exited" | "closed"
  isLLFG,       \* per process: isinstance(process, LowLatencyFrameGenerator)
  paused,       \* per process: pause() was called and resume() not yet
  stopReq,      \* per process: stop() was called
  in_q,         \* per process: the joinable control queue process._in_q
  unfinished,   \* per process: unfinished-task count of process._in_q
  metric_q,     \* per process: process._metric_q, tuples tagged "old" | "new"
  out_pipe,     \* per process: pipe.poll() of its out pipe, a package is pending
  t0_held,      \* per process: the time origin the producer holds (0: None)
  ppc,          \* per process: where the producer is in handling a reset
  pc,           \* the caller's position inside the Pipeline method it runs
  idx,          \* the caller's loop index over self.processes
  t0,           \* the local t0 of reset() (0: None, -1: not a reply)
  callOp,       \* the Pipeline method called last
  callResult,   \* "none" | "running" | "ok" | "raised"
  cleanupFrom,  \* who called cleanup: "get" | "exit"
  \* ---- history variables of the Pipeline, read by the properties only ----
  startCount,   \* per process: times start() was invoked
  startedAlive, \* start() was ever invoked on a process that was alive
  enterSawExited, \* __enter__ has examined a process that had exited
  stopInvoked,  \* per process: stop() invoked by the cleanup last begun
  wasAlive,     \* per process: the cleanup last begun saw it alive
  visited,      \* per process: the cleanup last begun reached it
  cleanupEnded, \* a cleanup has begun and is over (returned or raised)
  cleanupRaised,\* the cleanup last begun raised
  exitEnded,    \* __exit__ has been called and is over
  cleanedBefore, \* a cleanup begun earlier is over (returned or raised)
  ackd,         \* per process: it marked the reset message of this reset done
  replies,      \* per process: the t0 reply read by this reset (0: none)
  resumed,      \* per process: this reset has resumed it
  proposed,     \* per process: the t0 this reset proposed to it (-1: none)
  discarded,    \* per process: this reset took tuples off its metric queue
  retMetric     \* the metric queues as they were when this reset returned

pipeVars == <<pstate, isLLFG, paused, stopReq, in_q, unfinished, metric_q,
              out_pipe, t0_held, ppc, pc, idx, t0, callOp, callResult,
              cleanupFrom, startCount, startedAlive, enterSawExited,
              stopInvoked, wasAlive, visited, cleanupEnded, cleanupRaised,
              exitEnded, cleanedBefore, ackd, replies, resumed, proposed,
              discarded, retMetric>>

\* ---- ServerInferenceMetric (src/measurement.py) ----
VARIABLES
  m_count,      \* self.count
  m_ns,         \* self.ns
  m_args,       \* history: the (count, ns) of every update() call
  m_before,     \* history: the stored (count, ns) before every call
  m_rets        \* history: what every call returned

metricVars == <<m_count, m_ns, m_args, m_before, m_rets>>

\* ---- ThreadedStatWriter and ServerStatsMonitor (src/measurement.py) ----
VARIABLES
  s_phase,      \* "new", "failed" (__init__ raised), "ready" (constructed),
                \* "running" (inside run()), "done" (run() returned)
  s_pc,         \* position of run(): "check" (the while test) or "body"
  s_cfg,        \* the arguments model_name, monitor, limit of __init__
  s_models,     \* self.models
  s_monitor,    \* self.monitor, as the set of its elements
  s_limit,      \* self.limit
  s_stats,      \* self.stats: (count, ns) per model and process
  s_srv,        \* the server's cumulative counters per model
  s_time,       \* time.time()
  s_last_time,  \* self._last_time
  s_stopped,    \* self._stop_event
  s_error_q,    \* self._error_q
  s_file_open,  \* self.f is open
  s_sink,       \* the lines of the output file
  s_polls,      \* history: _get_values() calls made by run()
  s_errPut,     \* history: everything ever put on self._error_q
  s_errGot,     \* history: everything the error accessor returned
  s_stopCause,  \* history: the handler of run() that called stop()
  s_breachPoll, \* history: the poll that raised UnstableQueueException
  s_returned,   \* history: the rows returned by the polls of run()
  s_last        \* history: the response to the last poll of run(), the
                \* models whose request count it left unchanged, and how
                \* _get_values() ended

serverVars == <<s_phase, s_pc, s_cfg, s_models, s_monitor, s_limit, s_stats,
                s_srv, s_time, s_last_time, s_stopped, s_error_q,
                s_file_open, s_sink, s_polls, s_errPut, s_errGot,
                s_stopCause, s_breachPoll, s_returned, s_last>>

\* ---- ClientStatsMonitor (src/measurement.py) and its clients ----
VARIABLES
  c_phase,      \* "absent", "ready" (constructed), "running" (inside
                \* run()), "done" (run() returned)
  c_pc,         \* position of run(): "check" (the while test) or "body"
  c_cfg,        \* the clients, what they measure, and who calls
                \* _get_values(): run(), or the owner directly
  c_sent,       \* per client: the tuples it has put on its metric queue
  c_qs,         \* self.qs: the metric queue of every client
  c_start_time, \* self.start_time (Unset before the first assignment)
  c_n,          \* self.n
  c_latency,    \* self._latency
  c_throughput_q,   \* self._throughput_q
  c_request_rate_q, \* self._request_rate_q
  c_latency_q,      \* self._latency_q
  c_stopped,    \* self._stop_event
  c_error_q,    \* self._error_q
  c_file_open,  \* self.f is open
  c_sink,       \* the lines of the output file
  c_polls,      \* history: _get_values() calls made
  c_errPut,     \* history: everything ever put on self._error_q
  c_errGot,     \* history: everything the error accessor returned
  c_raised,     \* history: the exceptions that reached the direct caller
  c_consumed,   \* history: every tuple removed from a metric queue, with
                \* its client and the poll that removed it
  c_returned,   \* history: the rows _get_values() returned, as lines
  c_means,      \* history: self._latency after every data tuple consumed
  c_bad         \* history: the polls in which write_row refused a row

clientVars == <<c_phase, c_pc, c_cfg, c_sent, c_qs, c_start_time, c_n,
                c_latency, c_throughput_q, c_request_rate_q, c_latency_q,
                c_stopped, c_error_q, c_file_open, c_sink, c_polls,
                c_errPut, c_errGot, c_raised, c_consumed, c_returned,
                c_means, c_bad>>

\* ----------------------------------------------------------------------
\* One accessor of a ClientStatsMonitor (latency, throughput or
\* request_rate), its queue, the thread that publishes on it and the
\* thread that reads it
\* ----------------------------------------------------------------------
VARIABLES
  a_phase,    \* "absent" or "live"
  a_kind,     \* the accessor that is read
  a_n,        \* self.n
  a_latency,  \* self._latency
  a_q,        \* the queue of the accessor
  a_pc,       \* the reader: "idle", or "loop" (inside the for loop)
  a_i,        \* the i of the for loop
  a_value,    \* the local value of the accessor
  a_ret       \* history: what the last call returned, and what it left,
              \* until the next value is published

accessorVars == <<a_phase, a_kind, a_n, a_latency, a_q, a_pc, a_i, a_value,
                  a_ret>>

\* ----------------------------------------------------------------------
\* GCPFrameDataGenerator (src/frame_reader.py), the process that runs
\* read_frames, and the thread that owns the generator
\* ----------------------------------------------------------------------
VARIABLES
  g_phase,      \* "absent", "new" (constructed) or "started" (__iter__
                \* has been called)
  g_cfg,        \* the bucket: whether its lookup succeeds, its blobs, and
                \* the step of the generator
  g_frame,      \* self._frame (NoFrame: None)
  g_idx,        \* self._idx
  g_q,          \* self._q, a Queue of maxsize 1
  g_stop_event, \* self._stop_event
  g_closed,     \* self._frame_reader has been closed
  g_pc,         \* the owner: "idle", inside __next__ ("get", "alive") or
                \* inside stop() ("join", "close")
  f_pc,         \* read_frames: "none" (no process), "setup", "top",
                \* "wait", "put", "except", "return", "dead" (exited)
  f_i,          \* the blob read_frames is at
  f_err,        \* the exception read_frames is handling
  f_signalled,  \* terminate() has sent SIGTERM to the process
  g_iters,      \* history: calls of __iter__
  g_log,        \* history: how every call of __next__ and stop() ended
  g_taken       \* history: the blocks __next__ took from self._q

frameVars == <<g_phase, g_cfg, g_frame, g_idx, g_q, g_stop_event, g_closed,
               g_pc, f_pc, f_i, f_err, f_signalled, g_iters, g_log,
               g_taken>>

\* ---- main (src/client.py) and its inference client process ----
VARIABLES
  b_pc,         \* main: "absent", "init", "for", "progress", "stop", "join",
                \* "close", "close2", "done" (returned) or "raised"
  b_num_iterations, \* the argument num_iterations
  b_received,   \* num_packages_received
  b_i,          \* the position of the for loop in output_pipes
  b_pipes,      \* per data source: what its output pipe holds
  b_proc,       \* the client process: "new", "alive", "exited", "closed"
  b_stop,       \* client.stop() has been called
  b_exc,        \* the exception that left the try block ("": none)
  b_sent,       \* history: objects the client process has put on the pipes
  b_calls,      \* history: the methods of client that main has called
  b_file        \* history: the statistics file has been written

mainVars == <<b_pc, b_num_iterations, b_received, b_i, b_pipes, b_proc,
              b_stop, b_exc, b_sent, b_calls, b_file>>

vars == <<pipeVars, metricVars, serverVars, clientVars, accessorVars,
          frameVars, mainVars>>

\* what the actions of one component leave alone
nonPipeVars == <<metricVars, serverVars, clientVars, accessorVars,
  frameVars, mainVars>>
nonMetricVars == <<pipeVars, serverVars, clientVars, accessorVars,
  frameVars, mainVars>>
nonServerVars == <<pipeVars, metricVars, clientVars, accessorVars,
  frameVars, mainVars>>
nonClientVars == <<pipeVars, metricVars, serverVars, accessorVars,
  frameVars, mainVars>>
nonAccessorVars == <<pipeVars, metricVars, serverVars, clientVars,
  frameVars, mainVars>>
nonFrameVars == <<pipeVars, metricVars, serverVars, clientVars,
  accessorVars, mainVars>>
nonMainVars == <<pipeVars, metricVars, serverVars, clientVars,
  accessorVars, frameVars>>

\* ------------------------------------------------------------------ bounds
NProcs == 2          \* number of managed processes
MaxQ == 1            \* capacity modelled for a metric queue

Procs == 1..NProcs
\* the time origins a ring-buffer producer may pick when none is proposed
T0Values == {1, 2}
None == 0

\* ------------------------------------------------- Pipeline: the processes
\* Process.is_alive() of a process that is not closed
IsAlive(p) == pstate[p] = "alive"

\* Process.exitcode is None: never started, or still running
ExitcodeIsNone(p) == pstate[p] \in {"initial", "alive"}

\* a faulty variant of ShouldStart: the exitcode test is dropped
ShouldStart_NoExitcode(p) == ~IsAlive(p)

\* __enter__'s condition for process.start()
ShouldStart(p) == ~IsAlive(p) /\ ExitcodeIsNone(p)

\* a faulty variant of ResetMsg: the t0 of the earlier replies is not passed on
ResetMsg_NoChain(p, t) ==
  IF isLLFG[p] THEN [kind |-> "reset", t0 |-> None]
               ELSE [kind |-> "resetplain", t0 |-> None]

\* the reset message reset() puts on the control queue of process p
ResetMsg(p, t) ==
  IF isLLFG[p] THEN [kind |-> "reset", t0 |-> t]
               ELSE [kind |-> "resetplain", t0 |-> None]

\* the value reset() binds to t0 when it takes message m as the reply
ReplyValue(m) == IF m.kind = "reply" THEN m.t0 ELSE -1

\* a faulty variant of DrainMetricQ: the metric queue is left as it is
DrainMetricQ_Skip(q) == q

\* reset()'s loop of get_nowait() on process._metric_q until Empty
DrainMetricQ(q) == <<>>

\* every tuple of a metric queue marked as produced before the pause
MarkOld(q) == [k \in 1..Len(q) |-> "old"]

AllFalse == [p \in Procs |-> FALSE]
AllZero == [p \in Procs |-> 0]

\* the histories of the reset last begun and of the cleanup last begun start
\* afresh with every call of a Pipeline method
NoneProposed == [p \in Procs |-> -1]
NoTuples == [p \in Procs |-> <<>>]

ClearResetHist ==
  /\ ackd' = AllFalse
  /\ replies' = AllZero
  /\ resumed' = AllFalse
  /\ proposed' = NoneProposed
  /\ discarded' = AllFalse
  /\ retMetric' = NoTuples

ClearCleanupHist ==
  /\ stopInvoked' = AllFalse
  /\ wasAlive' = AllFalse
  /\ visited' = AllFalse
  /\ cleanupEnded' = FALSE
  /\ cleanupRaised' = FALSE

PipeInit ==
  /\ pstate = [p \in Procs |-> "initial"]
  /\ isLLFG \in [Procs -> BOOLEAN]
  /\ paused = AllFalse
  /\ stopReq = AllFalse
  /\ in_q = [p \in Procs |-> <<>>]
  /\ unfinished = AllZero
  /\ metric_q = [p \in Procs |-> <<>>]
  /\ out_pipe = AllFalse
  /\ t0_held = AllZero
  /\ ppc = [p \in Procs |-> "run"]
  /\ pc = "idle"
  /\ idx = 1
  /\ t0 = None
  /\ callOp = "none"
  /\ callResult = "none"
  /\ cleanupFrom = "none"
  /\ startCount = AllZero
  /\ startedAlive = FALSE
  /\ enterSawExited = FALSE
  /\ stopInvoked = AllFalse
  /\ wasAlive = AllFalse
  /\ visited = AllFalse
  /\ cleanupEnded = FALSE
  /\ cleanupRaised = FALSE
  /\ exitEnded = FALSE
  /\ cleanedBefore = FALSE
  /\ ackd = AllFalse
  /\ replies = AllZero
  /\ resumed = AllFalse
  /\ proposed = NoneProposed
  /\ discarded = AllFalse
  /\ retMetric = NoTuples

procVars == <<pstate, isLLFG, paused, stopReq, in_q, unfinished, metric_q,
              out_pipe, t0_held, ppc>>
callVars == <<pc, idx, t0, callOp, callResult, cleanupFrom>>
enterHist == <<startCount, startedAlive, enterSawExited>>
cleanupHist == <<stopInvoked, wasAlive, visited, cleanupEnded, cleanupRaised,
                 exitEnded, cleanedBefore>>
resetHist == <<ackd, replies, resumed, proposed, discarded, retMetric>>

\* ------------------------------------------------------ Pipeline.__enter__
EnterCall ==
  /\ UNCHANGED nonPipeVars
  /\ pc = "idle"
  /\ pc' = "E_loop"
  /\ idx' = 1
  /\ callOp' = "enter"
  /\ callResult' = "running"
  /\ ClearResetHist
  /\ ClearCleanupHist
  /\ UNCHANGED <<procVars, t0, cleanupFrom, enterHist,
                 exitEnded, cleanedBefore>>

\* one iteration of the loop; is_alive() of a closed process raises ValueError
EnterStep ==
  /\ UNCHANGED nonPipeVars
  /\ pc = "E_loop"
  /\ enterSawExited' = (enterSawExited \/ pstate[idx] = "exited")
  /\ IF pstate[idx] = "closed"
       THEN /\ pc' = "idle"
            /\ idx' = 1
            /\ callResult' = "raised"
            /\ UNCHANGED <<pstate, startCount, startedAlive>>
       ELSE /\ IF ShouldStart(idx)
                 THEN /\ pstate' = [pstate EXCEPT ![idx] = "alive"]
                      /\ startCount' = [startCount EXCEPT ![idx] = @ + 1]
                      /\ startedAlive' = (startedAlive \/ IsAlive(idx))
                 ELSE UNCHANGED <<pstate, startCount, startedAlive>>
            /\ IF idx < NProcs
                 THEN /\ idx' = idx + 1
                      /\ UNCHANGED <<pc, callResult>>
                 ELSE /\ pc' = "idle"
                      /\ idx' = 1
                      /\ callResult' = "ok"
  /\ UNCHANGED <<isLLFG, paused, stopReq, in_q, unfinished, metric_q, out_pipe,
                 t0_held, ppc, t0, callOp, cleanupFrom, cleanupHist, resetHist>>

\* ------------------------------------------------------- Pipeline.cleanup
\* the caller's variables and histories at the first line of cleanup()
BeginCleanup(from) ==
  /\ pc' = "C_alive"
  /\ idx' = 1
  /\ cleanupFrom' = from
  /\ ClearCleanupHist
  /\ ClearResetHist

\* cleanup() goes on to the next process, or returns to get() or __exit__()
CleanupAdvance ==
  IF idx < NProcs
    THEN /\ idx' = idx + 1
         /\ pc' = "C_alive"
         /\ UNCHANGED <<callResult, cleanupFrom, cleanupEnded,
                        exitEnded, cleanedBefore>>
    ELSE /\ pc' = "idle"
         /\ idx' = 1
         /\ cleanupFrom' = "none"
         /\ cleanupEnded' = TRUE
         /\ exitEnded' = (exitEnded \/ cleanupFrom = "exit")
         /\ cleanedBefore' = TRUE
         /\ callResult' = IF cleanupFrom = "get" THEN "raised" ELSE "ok"

\* Pipeline.__exit__
ExitCall ==
  /\ UNCHANGED nonPipeVars
  /\ pc = "idle"
  /\ callOp' = "exit"
  /\ callResult' = "running"
  /\ BeginCleanup("exit")
  /\ UNCHANGED <<procVars, t0, enterHist, exitEnded, cleanedBefore>>

\* is_alive(), and stop() of a process that is alive
CleanupIsAlive ==
  /\ UNCHANGED nonPipeVars
  /\ pc = "C_alive"
  /\ visited' = [visited EXCEPT ![idx] = TRUE]
  /\ IF pstate[idx] = "closed"
       THEN /\ CleanupAdvance
            /\ UNCHANGED <<stopReq, stopInvoked, wasAlive>>
       ELSE IF IsAlive(idx)
         THEN /\ stopReq' = [stopReq EXCEPT ![idx] = TRUE]
              /\ stopInvoked' = [stopInvoked EXCEPT ![idx] = TRUE]
              /\ wasAlive' = [wasAlive EXCEPT ![idx] = TRUE]
              /\ pc' = "C_join"
              /\ UNCHANGED <<idx, callResult, cleanupFrom, cleanupEnded,
                             exitEnded, cleanedBefore>>
         ELSE /\ pc' = "C_close"
              /\ UNCHANGED <<idx, callResult, cleanupFrom, cleanupEnded,
                             exitEnded, cleanedBefore, stopReq,
                             stopInvoked, wasAlive>>
  /\ UNCHANGED <<pstate, isLLFG, paused, in_q, unfinished, metric_q, out_pipe,
                 t0_held, ppc, t0, callOp, enterHist, cleanupRaised, resetHist>>

\* process.join(0.5) returns: the process has exited, or the wait timed out
CleanupJoin ==
  /\ UNCHANGED nonPipeVars
  /\ pc = "C_join"
  /\ pc' = "C_close"
  /\ UNCHANGED <<procVars, idx, t0, callOp, callResult, cleanupFrom, enterHist,
                 cleanupHist, resetHist>>

\* the first process.close(): ValueError while the process still runs, and
\* then process.terminate()
CleanupClose ==
  /\ UNCHANGED nonPipeVars
  /\ pc = "C_close"
  /\ IF IsAlive(idx)
       THEN /\ pc' = "C_close2"
            /\ UNCHANGED <<pstate, idx, callResult, cleanupFrom, cleanupEnded,
                           exitEnded, cleanedBefore>>
       ELSE /\ pstate' = [pstate EXCEPT ![idx] = "closed"]
            /\ CleanupAdvance
  /\ UNCHANGED <<isLLFG, paused, stopReq, in_q, unfinished, metric_q, out_pipe,
                 t0_held, ppc, t0, callOp, enterHist, stopInvoked,
                 wasAlive, visited, cleanupRaised, resetHist>>

\* a faulty variant of SecondCloseRaises: terminate() always ends the process in time
SecondCloseRaises_Never(p) == FALSE

\* after terminate() and sleep(0.1), close() raises ValueError when the
\* process is still running; nothing catches it
SecondCloseRaises(p) == IsAlive(p)

CleanupClose2 ==
  /\ UNCHANGED nonPipeVars
  /\ pc = "C_close2"
  /\ IF SecondCloseRaises(idx)
       THEN /\ pc' = "idle"
            /\ idx' = 1
            /\ cleanupFrom' = "none"
            /\ callResult' = "raised"
            /\ cleanupEnded' = TRUE
            /\ cleanupRaised' = TRUE
            /\ exitEnded' = (exitEnded \/ cleanupFrom = "exit")
            /\ cleanedBefore' = TRUE
            /\ UNCHANGED pstate
       ELSE /\ pstate' = [pstate EXCEPT ![idx] = "closed"]
            /\ CleanupAdvance
            /\ UNCHANGED cleanupRaised
  /\ UNCHANGED <<isLLFG, paused, stopReq, in_q, unfinished, metric_q, out_pipe,
                 t0_held, ppc, t0, callOp, enterHist, stopInvoked,
                 wasAlive, visited, resetHist>>

\* ----------------------------------------------------------- Pipeline.get
\* sync_recv(self.out_pipes, timeout): every pipe has a package
SyncRecvReady == \A p \in Procs : out_pipe[p]

GetOk ==
  /\ UNCHANGED nonPipeVars
  /\ pc = "idle"
  /\ SyncRecvReady
  /\ out_pipe' \in [Procs -> BOOLEAN]
  /\ callOp' = "get"
  /\ callResult' = "ok"
  /\ ClearResetHist
  /\ ClearCleanupHist
  /\ UNCHANGED <<pstate, isLLFG, paused, stopReq, in_q, unfinished, metric_q,
                 t0_held, ppc, pc, idx, t0, cleanupFrom, enterHist,
                 exitEnded, cleanedBefore>>

\* sync_recv raises (the timeout passed with a pipe still empty): cleanup()
GetFail ==
  /\ UNCHANGED nonPipeVars
  /\ pc = "idle"
  /\ ~SyncRecvReady
  /\ callOp' = "get"
  /\ callResult' = "running"
  /\ BeginCleanup("get")
  /\ UNCHANGED <<procVars, t0, enterHist, exitEnded, cleanedBefore>>

\* --------------------------------------------------------- Pipeline.reset
ResetCall ==
  /\ UNCHANGED nonPipeVars
  /\ pc = "idle"
  /\ pc' = "R_pause"
  /\ idx' = 1
  /\ callOp' = "reset"
  /\ callResult' = "running"
  /\ ClearResetHist
  /\ ClearCleanupHist
  /\ UNCHANGED <<procVars, t0, cleanupFrom, enterHist,
                 exitEnded, cleanedBefore>>

\* process.pause() in the first loop; what the queue of the paused process
\* holds was produced before the reset
ResetPause ==
  /\ UNCHANGED nonPipeVars
  /\ pc = "R_pause"
  /\ paused' = [paused EXCEPT ![idx] = TRUE]
  /\ metric_q' = [metric_q EXCEPT ![idx] = MarkOld(@)]
  /\ IF idx < NProcs
       THEN /\ idx' = idx + 1
            /\ UNCHANGED pc
       ELSE /\ pc' = "R_pipes"
            /\ UNCHANGED idx
  /\ UNCHANGED <<pstate, isLLFG, stopReq, in_q, unfinished, out_pipe, t0_held,
                 ppc, t0, callOp, callResult, cleanupFrom, enterHist,
                 cleanupHist, resetHist>>

\* every out pipe is read until poll() is false; then t0 = None
ResetDrainPipes ==
  /\ UNCHANGED nonPipeVars
  /\ pc = "R_pipes"
  /\ out_pipe' = AllFalse
  /\ t0' = None
  /\ pc' = "R_put"
  /\ idx' = 1
  /\ UNCHANGED <<pstate, isLLFG, paused, stopReq, in_q, unfinished, metric_q,
                 t0_held, ppc, callOp, callResult, cleanupFrom, enterHist,
                 cleanupHist, resetHist>>

\* process._in_q.put(...) of the reset message
ResetPut ==
  /\ UNCHANGED nonPipeVars
  /\ pc = "R_put"
  /\ in_q' = [in_q EXCEPT ![idx] = Append(@, ResetMsg(idx, t0))]
  /\ unfinished' = [unfinished EXCEPT ![idx] = @ + 1]
  /\ proposed' = [proposed EXCEPT ![idx] = ResetMsg(idx, t0).t0]
  /\ pc' = "R_join"
  /\ UNCHANGED <<pstate, isLLFG, paused, stopReq, metric_q, out_pipe, t0_held,
                 ppc, idx, t0, callOp, callResult, cleanupFrom, enterHist,
                 cleanupHist, ackd, replies, resumed, discarded, retMetric>>

\* a faulty variant of AfterJoin: the metric queue of a process that
\* sends no reply is not drained
AfterJoin_NoDrain(p) == IF isLLFG[p] THEN "R_reply" ELSE "R_resume"

\* where reset() goes on once process._in_q.join() has returned
AfterJoin(p) == IF isLLFG[p] THEN "R_reply" ELSE "R_metric"

\* a faulty variant of JoinReturns: join() does not wait for the message to be done
JoinReturns_NoWait(p) == TRUE

\* process._in_q.join() entered with no unfinished task returns at once
JoinReturns(p) == unfinished[p] = 0

\* process._in_q.join(): returns at once, or waits to be notified
ResetJoin ==
  /\ UNCHANGED nonPipeVars
  /\ pc = "R_join"
  /\ pc' = IF JoinReturns(idx) THEN AfterJoin(idx) ELSE "R_joinwait"
  /\ UNCHANGED <<procVars, idx, t0, callOp, callResult, cleanupFrom, enterHist,
                 cleanupHist, resetHist>>

\* one round of the while True loop: get_nowait() raises Empty and the loop
\* goes round, or it returns the head of the queue, which becomes t0
ResetGetReply ==
  /\ UNCHANGED nonPipeVars
  /\ pc = "R_reply"
  /\ in_q[idx] # <<>>
  /\ unfinished[idx] > 0
  /\ t0' = ReplyValue(Head(in_q[idx]))
  /\ replies' = [replies EXCEPT ![idx] = ReplyValue(Head(in_q[idx]))]
  /\ in_q' = [in_q EXCEPT ![idx] = Tail(@)]
  /\ unfinished' = [unfinished EXCEPT ![idx] = @ - 1]
  /\ pc' = "R_metric"
  /\ UNCHANGED <<pstate, isLLFG, paused, stopReq, metric_q, out_pipe, t0_held,
                 ppc, idx, callOp, callResult, cleanupFrom, enterHist,
                 cleanupHist, ackd, resumed, proposed, discarded, retMetric>>

\* the loop of get_nowait() on process._metric_q until Empty
ResetDrainMetric ==
  /\ UNCHANGED nonPipeVars
  /\ pc = "R_metric"
  /\ metric_q' = [metric_q EXCEPT ![idx] = DrainMetricQ(@)]
  /\ discarded' = [discarded EXCEPT ![idx] = metric_q[idx] # <<>>]
  /\ pc' = "R_resume"
  /\ UNCHANGED <<pstate, isLLFG, paused, stopReq, in_q, unfinished, out_pipe,
                 t0_held, ppc, idx, t0, callOp, callResult, cleanupFrom,
                 enterHist, cleanupHist, ackd, replies, resumed, proposed,
                 retMetric>>

\* process.resume(), the last statement of the loop body
ResetResume ==
  /\ UNCHANGED nonPipeVars
  /\ pc = "R_resume"
  /\ paused' = [paused EXCEPT ![idx] = FALSE]
  /\ resumed' = [resumed EXCEPT ![idx] = TRUE]
  /\ IF idx < NProcs
       THEN /\ idx' = idx + 1
            /\ pc' = "R_put"
            /\ UNCHANGED <<callResult, t0, retMetric>>
       ELSE /\ pc' = "idle"
            /\ idx' = 1
            /\ t0' = None
            /\ callResult' = "ok"
            /\ retMetric' = metric_q
  /\ UNCHANGED <<pstate, isLLFG, stopReq, in_q, unfinished, metric_q, out_pipe,
                 t0_held, ppc, callOp, cleanupFrom, enterHist, cleanupHist,
                 ackd, replies, proposed, discarded>>

\* ------------------------------------------- the producers (the processes)
\* a running producer writes a package to its out pipe
ProdEmitOut(p) ==
  /\ UNCHANGED nonPipeVars
  /\ IsAlive(p)
  /\ ~paused[p]
  /\ ~out_pipe[p]
  /\ out_pipe' = [out_pipe EXCEPT ![p] = TRUE]
  /\ UNCHANGED <<pstate, isLLFG, paused, stopReq, in_q, unfinished, metric_q,
                 t0_held, ppc, callVars, enterHist, cleanupHist, resetHist>>

\* a running producer puts a measurement tuple on its metric queue
ProdEmitMetric(p) ==
  /\ UNCHANGED nonPipeVars
  /\ IsAlive(p)
  /\ ~paused[p]
  /\ Len(metric_q[p]) < MaxQ
  /\ metric_q' = [metric_q EXCEPT ![p] = Append(@, "new")]
  /\ UNCHANGED <<pstate, isLLFG, paused, stopReq, in_q, unfinished, out_pipe,
                 t0_held, ppc, callVars, enterHist, cleanupHist, resetHist>>

\* the time origin a ring-buffer producer holds after a reset proposing t:
\* the proposed one, or one of its own when none is proposed
AdoptT0(t, own) == IF t # None THEN t ELSE own

\* the producer takes a reset message from its control queue
ProdTake(p) ==
  /\ UNCHANGED nonPipeVars
  /\ IsAlive(p)
  /\ ppc[p] = "run"
  /\ in_q[p] # <<>>
  /\ Head(in_q[p]).kind \in {"reset", "resetplain"}
  /\ in_q' = [in_q EXCEPT ![p] = Tail(@)]
  /\ ppc' = [ppc EXCEPT ![p] = "got"]
  /\ IF Head(in_q[p]).kind = "reset"
       THEN \E own \in T0Values :
              t0_held' = [t0_held EXCEPT ![p] = AdoptT0(Head(in_q[p]).t0, own)]
       ELSE UNCHANGED t0_held
  /\ UNCHANGED <<pstate, isLLFG, paused, stopReq, unfinished, metric_q,
                 out_pipe, callVars, enterHist, cleanupHist, resetHist>>

\* the producer marks the message done: task_done() notifies a waiting
\* join() when the count of unfinished tasks reaches zero
ProdTaskDone(p) ==
  /\ UNCHANGED nonPipeVars
  /\ IsAlive(p)
  /\ ppc[p] = "got"
  /\ unfinished[p] > 0
  /\ unfinished' = [unfinished EXCEPT ![p] = @ - 1]
  /\ ackd' = [ackd EXCEPT ![p] = TRUE]
  /\ ppc' = [ppc EXCEPT ![p] = IF isLLFG[p] THEN "reply" ELSE "run"]
  /\ IF pc = "R_joinwait" /\ idx = p /\ unfinished[p] = 1
       THEN pc' = AfterJoin(p)
       ELSE UNCHANGED pc
  /\ UNCHANGED <<pstate, isLLFG, paused, stopReq, in_q, metric_q, out_pipe,
                 t0_held, idx, t0, callOp, callResult, cleanupFrom, enterHist,
                 cleanupHist, replies, resumed, proposed, discarded, retMetric>>

\* a ring-buffer producer puts the t0 it holds on the same control queue
ProdReply(p) ==
  /\ UNCHANGED nonPipeVars
  /\ IsAlive(p)
  /\ ppc[p] = "reply"
  /\ in_q' = [in_q EXCEPT ![p] = Append(@, [kind |-> "reply", t0 |-> t0_held[p]])]
  /\ unfinished' = [unfinished EXCEPT ![p] = @ + 1]
  /\ ppc' = [ppc EXCEPT ![p] = "run"]
  /\ UNCHANGED <<pstate, isLLFG, paused, stopReq, metric_q, out_pipe, t0_held,
                 callVars, enterHist, cleanupHist, resetHist>>

\* the process ends: it saw its stop event, was terminated, or finished
ProcExit(p) ==
  /\ UNCHANGED nonPipeVars
  /\ IsAlive(p)
  /\ pstate' = [pstate EXCEPT ![p] = "exited"]
  /\ UNCHANGED <<isLLFG, paused, stopReq, in_q, unfinished, metric_q, out_pipe,
                 t0_held, ppc, callVars, enterHist, cleanupHist, resetHist>>

PipeNext ==
  \/ EnterCall \/ EnterStep
  \/ ExitCall \/ CleanupIsAlive \/ CleanupJoin \/ CleanupClose \/ CleanupClose2
  \/ GetOk \/ GetFail
  \/ ResetCall \/ ResetPause \/ ResetDrainPipes \/ ResetPut \/ ResetJoin
  \/ ResetGetReply \/ ResetDrainMetric \/ ResetResume
  \/ \E p \in Procs :
       \/ ProdEmitOut(p) \/ ProdEmitMetric(p)
       \/ ProdTake(p) \/ ProdTaskDone(p) \/ ProdReply(p)
       \/ ProcExit(p)

\* enter, get and exit with the producers' packages and exits
LifeNext ==
  \/ EnterCall \/ EnterStep
  \/ ExitCall \/ CleanupIsAlive \/ CleanupJoin \/ CleanupClose \/ CleanupClose2
  \/ GetOk \/ GetFail
  \/ \E p \in Procs : ProdEmitOut(p) \/ ProcExit(p)

\* reset() of a started Pipeline whose producers keep running
ResetNext ==
  \/ ResetCall \/ ResetPause \/ ResetDrainPipes \/ ResetPut \/ ResetJoin
  \/ ResetGetReply \/ ResetDrainMetric \/ ResetResume
  \/ \E p \in Procs :
       \/ ProdEmitOut(p) \/ ProdEmitMetric(p)
       \/ ProdTake(p) \/ ProdTaskDone(p) \/ ProdReply(p)

\* the Pipeline after __enter__ has started every process
StartedInit ==
  /\ pstate = [p \in Procs |-> "alive"]
  /\ isLLFG \in [Procs -> BOOLEAN]
  /\ paused = AllFalse
  /\ stopReq = AllFalse
  /\ in_q = [p \in Procs |-> <<>>]
  /\ unfinished = AllZero
  /\ metric_q = [p \in Procs |-> <<>>]
  /\ out_pipe = AllFalse
  /\ t0_held = AllZero
  /\ ppc = [p \in Procs |-> "run"]
  /\ pc = "idle"
  /\ idx = 1
  /\ t0 = None
  /\ callOp = "enter"
  /\ callResult = "ok"
  /\ cleanupFrom = "none"
  /\ startCount = [p \in Procs |-> 1]
  /\ startedAlive = FALSE
  /\ enterSawExited = FALSE
  /\ stopInvoked = AllFalse
  /\ wasAlive = AllFalse
  /\ visited = AllFalse
  /\ cleanupEnded = FALSE
  /\ cleanupRaised = FALSE
  /\ exitEnded = FALSE
  /\ cleanedBefore = FALSE
  /\ ackd = AllFalse
  /\ replies = AllZero
  /\ resumed = AllFalse
  /\ proposed = NoneProposed
  /\ discarded = AllFalse
  /\ retMetric = NoTuples

\* the Pipeline left alone, for the specifications of the other components
PipeIdle == PipeInit /\ isLLFG = AllFalse

\* ======================================================================
\* ServerInferenceMetric (src/measurement.py)
\* ======================================================================
MaxUpdates == 4      \* update() calls in one run of the metric
CountValues == {0, 10, 25}
NsValues == {0, 100, 250}

Abs(x) == IF x < 0 THEN -x ELSE x

RECURSIVE GCD(_, _)
GCD(a, b) == IF b = 0 THEN a ELSE GCD(b, a % b)

\* the quotient n / d of Python's true division, as the fraction in lowest
\* terms with a positive denominator (d # 0)
Quot(n, d) ==
  LET g == GCD(Abs(n), Abs(d))
      sgn == IF d < 0 THEN -1 ELSE 1
  IN  [num |-> (sgn * n) \div g, den |-> (sgn * d) \div g]

\* quotient q > x
Greater(q, x) == q.num > x * q.den

\* update() returning None
NoData == [kind |-> "none"]

\* a faulty variant of MetricUpdate: self.ns is not stored
MetricUpdate_KeepNs(st, count, ns) ==
  LET update == count - st.count
  IN  IF update = 0
        THEN [st |-> st, ret |-> NoData]
        ELSE [st |-> [count |-> count, ns |-> st.ns],
              ret |-> [kind |-> "data", avg |-> Quot(ns - st.ns, update),
                       n |-> update]]

\* ServerInferenceMetric.update(count, ns) on the stored st = (count, ns):
\* the state it leaves and the value it returns
MetricUpdate(st, count, ns) ==
  LET update == count - st.count
  IN  IF update = 0
        THEN [st |-> st, ret |-> NoData]
        ELSE [st |-> [count |-> count, ns |-> ns],
              ret |-> [kind |-> "data", avg |-> Quot(ns - st.ns, update),
                       n |-> update]]

\* ServerInferenceMetric.__init__
MetricInit ==
  /\ m_count = 0
  /\ m_ns = 0
  /\ m_args = <<>>
  /\ m_before = <<>>
  /\ m_rets = <<>>

MetricIdle == MetricInit

\* one call of update() with any of the modelled snapshots
MetricCall ==
  \E c \in CountValues, n \in NsValues :
    LET r == MetricUpdate([count |-> m_count, ns |-> m_ns], c, n)
    IN  /\ UNCHANGED nonMetricVars
        /\ Len(m_args) < MaxUpdates
        /\ m_count' = r.st.count
        /\ m_ns' = r.st.ns
        /\ m_args' = Append(m_args, [count |-> c, ns |-> n])
        /\ m_before' = Append(m_before, [count |-> m_count, ns |-> m_ns])
        /\ m_rets' = Append(m_rets, r.ret)

\* ======================================================================
\* ThreadedStatWriter and ServerStatsMonitor (src/measurement.py)
\* ======================================================================
MaxPolls == 3        \* iterations of the loop of run()

AllModels == {"a", "b"}
\* client.get_model_config(model_name): the model itself, or the steps of
\* the ensemble "ens"
ModelsOf(model_name) ==
  IF model_name = "ens" THEN <<"a", "b">> ELSE <<model_name>>
\* the arguments model_name, monitor and limit of __init__ ("none" and None
\* when absent)
Configs ==
  {[model_name |-> "a", monitor |-> "none", limit |-> None],
   [model_name |-> "a", monitor |-> "a", limit |-> None],
   [model_name |-> "a", monitor |-> "a", limit |-> 200],
   [model_name |-> "ens", monitor |-> "b", limit |-> 200]}
\* what the server's counters of one model gain between two polls: the
\* request count and the queue duration (us)
Deltas == {[count |-> 0, queue |-> 0], [count |-> 1, queue |-> 100],
           [count |-> 1, queue |-> 250]}
GpuValues == {50}

processes ==
  <<"success", "queue", "compute_input", "compute_infer", "compute_output">>
columns == processes \o <<"gpu_utilization", "model", "count", "interval">>

\* self.stats, a defaultdict of defaultdicts of ServerInferenceMetric
ZeroStats ==
  [m \in AllModels |-> [j \in 1..Len(processes) |-> [count |-> 0, ns |-> 0]]]
ZeroSrv == [m \in AllModels |-> [count |-> 0, queue |-> 0]]

SeqRange(s) == {s[i] : i \in 1..Len(s)}

\* the responses requests.get(self.url) may give when the server's counters
\* are srv: the request raises ("transport"), or gives metrics text without
\* nv_gpu_utilization rows ("nogpu"), or metrics text ("ok", possibly
\* without the rows of one model). The counters of the served models have
\* grown in a response whose counters are read
Responses(models, srv) ==
  LET served == SeqRange(models)
      \* the models whose counters _get_values() may read before it raises
      Read(sh) == IF sh.kind # "ok" THEN {}
                  ELSE {models[i] : i \in {k \in 1..Len(models) :
                          \A h \in 1..k : models[h] # sh.missing}}
      shapes == {[kind |-> "ok", missing |-> x] : x \in {"none"} \cup served}
                \cup {[kind |-> k, missing |-> "none"] :
                        k \in {"transport", "nogpu"}}
      Grown(sh) == {d \in [AllModels -> Deltas] :
                      \A m \in AllModels \ Read(sh) : d[m].count = 0}
  IN  UNION {{[kind |-> sh.kind, missing |-> sh.missing, gpu |-> g,
               srv |-> [m \in AllModels |->
                          [count |-> srv[m].count + d[m].count,
                           queue |-> srv[m].queue + d[m].queue]]] :
                d \in Grown(sh), g \in GpuValues} : sh \in shapes}

\* sum of the nv_inference_<field>_duration_us rows of a model: the queue
\* duration as the server counts it, 10 us per request in the other phases
ProcessUs(resp, model, j) ==
  IF processes[j] = "queue" THEN resp.srv[model].queue
                            ELSE 10 * resp.srv[model].count

\* what _get_values() does: the stats it leaves, and whether it returns rows
\* ("rows"), returns None ("none"), raises UnstableQueueException after
\* putting t on the error queue ("unstable"), or raises exc ("exc")
Outcome(kind, stats, rows, t, exc) ==
  [kind |-> kind, stats |-> stats, rows |-> rows, t |-> t, exc |-> exc]

\* values put on the error queue: a number, or an exception
ErrValue(t) == [kind |-> "value", name |-> "", val |-> t]
ErrException(name) == [kind |-> "exception", name |-> name, val |-> Quot(0, 1)]

\* if model in self.monitor and process == "queue": if t > self.limit
Breach(self, model, j, t) ==
  /\ model \in self.monitor
  /\ processes[j] = "queue"
  /\ Greater(t, self.limit)

\* for process in self.columns[:5], from the j-th process on
RECURSIVE ProcessLoop(_, _, _, _, _, _, _)
ProcessLoop(self, resp, model, j, stats, model_values, diff) ==
  IF j > 5
    THEN [kind |-> "row", stats |-> stats, model_values |-> model_values,
          diff |-> diff, t |-> Quot(0, 1)]
    ELSE LET r == MetricUpdate(stats[model][j], resp.srv[model].count,
                               ProcessUs(resp, model, j))
             stats2 == [stats EXCEPT ![model][j] = r.st]
         IN  IF r.ret.kind = "none"
               THEN [kind |-> "none", stats |-> stats2,
                     model_values |-> model_values, diff |-> diff,
                     t |-> Quot(0, 1)]
               ELSE IF Breach(self, model, j, r.ret.avg)
                 THEN [kind |-> "unstable", stats |-> stats2,
                       model_values |-> Append(model_values, r.ret.avg),
                       diff |-> r.ret.n, t |-> r.ret.avg]
                 ELSE ProcessLoop(self, resp, model, j + 1, stats2,
                                  Append(model_values, r.ret.avg), r.ret.n)

\* for model in self.models, from the i-th model on
RECURSIVE ModelLoop(_, _, _, _, _, _)
ModelLoop(self, resp, interval, i, stats, values) ==
  IF i > Len(self.models)
    THEN Outcome("rows", stats, values, Quot(0, 1), "")
    ELSE LET model == self.models[i]
             r == ProcessLoop(self, resp, model, 1, stats, <<>>, 0)
         IN  IF model = resp.missing
               THEN Outcome("exc", stats, values, Quot(0, 1), "ValueError")
               ELSE CASE r.kind = "none" ->
                           Outcome("none", r.stats, values, Quot(0, 1), "")
                      [] r.kind = "unstable" ->
                           Outcome("unstable", r.stats, values, r.t, "")
                      [] OTHER ->
                           ModelLoop(self, resp, interval, i + 1, r.stats,
                                     Append(values,
                                            r.model_values \o
                                            <<resp.gpu, model, r.diff,
                                              interval>>))

\* ServerStatsMonitor._get_values()
GetValues(self, resp, interval, stats) ==
  CASE resp.kind = "transport" ->
         Outcome("exc", stats, <<>>, Quot(0, 1), "ConnectionError")
    [] resp.kind = "nogpu" ->
         Outcome("exc", stats, <<>>, Quot(0, 1), "ZeroDivisionError")
    [] OTHER -> ModelLoop(self, resp, interval, 1, stats, <<>>)

\* ---- ThreadedStatWriter ----
\* a line of the output file: the texts of its cells, and the poll of run()
\* that wrote it (0 for the header)
Line(poll, values) == [poll |-> poll, cells |-> values]
HeaderLine == Line(0, columns)

\* a faulty variant of RowFits: a row of any length is accepted
RowFits_Any(cols, values) == TRUE

\* write_row: the row has as many values as there are columns
RowFits(cols, values) == Len(values) = Len(cols)

\* for v in values: self.write_row(v), from the i-th row on, in a writer
\* whose columns are cols; write_row raises ValueError on a row whose
\* length is not that of the columns
RECURSIVE WriteRowsTo(_, _, _, _, _)
WriteRowsTo(cols, values, i, poll, sink) ==
  IF i > Len(values)
    THEN [sink |-> sink, ok |-> TRUE]
    ELSE IF ~RowFits(cols, values[i])
      THEN [sink |-> sink, ok |-> FALSE]
      ELSE WriteRowsTo(cols, values, i + 1, poll,
                       Append(sink, Line(poll, values[i])))

\* the same in the ServerStatsMonitor
WriteRows(values, i, poll, sink) == WriteRowsTo(columns, values, i, poll, sink)

\* a faulty variant of RowsToWrite: the rows completed before the raise are written
RowsToWrite_Partial(res) ==
  IF res.kind \in {"rows", "unstable"} THEN res.rows ELSE <<>>

\* the values run() has to write: those _get_values() returned, if it
\* returned and they are not None
RowsToWrite(res) ==
  IF res.kind = "rows" THEN res.rows ELSE <<>>

\* a faulty variant of LoopGoesOn: the stop event is not looked at
LoopGoesOn_Always(stopped) == TRUE

\* while not self.stopped
LoopGoesOn(stopped) == ~stopped

\* a faulty variant of FileAfterWith: the file is left as it is
FileAfterWith_Leak(open) == open

\* with open(...) as self.f: the file is closed when the block is left
FileAfterWith(open) == FALSE

\* a faulty variant of HandlerStops: no except clause calls stop()
HandlerStops_Never(res, written) == FALSE

\* the except clauses of run() call self.stop(): on
\* UnstableQueueException, and on any other exception of _get_values()
\* or write_row
HandlerStops(res, written) ==
  res.kind \in {"unstable", "exc"} \/ ~written

\* a faulty variant of HandlerPut: the UnstableQueueException is put as well
HandlerPut_Always(res, written) ==
  IF res.kind = "unstable" THEN <<ErrException("UnstableQueueException")>>
  ELSE IF res.kind = "exc" THEN <<ErrException(res.exc)>>
  ELSE IF ~written THEN <<ErrException("ValueError")>>
  ELSE <<>>

\* what the except clauses of run() put on the error queue
HandlerPut(res, written) ==
  IF res.kind = "unstable" THEN <<>>
  ELSE IF res.kind = "exc" THEN <<ErrException(res.exc)>>
  ELSE IF ~written THEN <<ErrException("ValueError")>>
  ELSE <<>>

\* no poll of run() yet
NoPoll == [kind |-> "none", missing |-> "none", unchanged |-> {},
           outcome |-> "none"]

\* a ServerStatsMonitor in the given phase ("absent": none is made), with
\* the given arguments of __init__, before anything is fetched
ServerAt(phase, cfg) ==
  /\ s_phase = phase
  /\ s_pc = "check"
  /\ s_cfg = cfg
  /\ s_models = <<>>
  /\ s_monitor = {}
  /\ s_limit = None
  /\ s_stats = ZeroStats
  /\ s_srv = ZeroSrv
  /\ s_time = 0
  /\ s_last_time = 0
  /\ s_stopped = FALSE
  /\ s_error_q = <<>>
  /\ s_file_open = FALSE
  /\ s_sink = <<>>
  /\ s_polls = 0
  /\ s_errPut = <<>>
  /\ s_errGot = <<>>
  /\ s_stopCause = "none"
  /\ s_breachPoll = 0
  /\ s_returned = <<>>
  /\ s_last = NoPoll

\* before ServerStatsMonitor.__init__, with the given arguments
ServerNew(cfg) == ServerAt("new", cfg)

ServerInit == \E cfg \in Configs : ServerNew(cfg)
ServerIdle ==
  ServerAt("absent", [model_name |-> "a", monitor |-> "none", limit |-> None])

serverHist == <<s_polls, s_errGot, s_stopCause, s_breachPoll, s_returned,
                s_last>>

\* ServerStatsMonitor.__init__: it ends with a first _get_values() that
\* initializes the metrics, and whose exceptions leave __init__
ServerConstruct ==
  /\ UNCHANGED nonServerVars
  /\ s_phase = "new"
  /\ LET models == ModelsOf(s_cfg.model_name)
     IN
       IF s_cfg.monitor # "none" /\ s_cfg.limit = None
         THEN /\ s_phase' = "failed"
              /\ s_models' = models
              /\ UNCHANGED <<s_pc, s_cfg, s_monitor, s_limit, s_stats, s_srv,
                             s_time, s_last_time, s_stopped, s_error_q,
                             s_file_open, s_sink, s_errPut, serverHist>>
         ELSE \E resp \in Responses(models, s_srv) :
                LET self == [models |-> models,
                             monitor |-> IF s_cfg.monitor = "none" THEN {}
                                         ELSE {s_cfg.monitor},
                             limit |-> s_cfg.limit]
                    res == GetValues(self, resp, (s_time + 1) - s_time,
                                     ZeroStats)
                    put == IF res.kind = "unstable" THEN <<ErrValue(res.t)>>
                                                    ELSE <<>>
                IN  /\ s_phase' = IF res.kind \in {"exc", "unstable"}
                                    THEN "failed" ELSE "ready"
                    /\ s_models' = self.models
                    /\ s_monitor' = self.monitor
                    /\ s_limit' = self.limit
                    /\ s_stats' = res.stats
                    /\ s_srv' = resp.srv
                    /\ s_time' = s_time + 1
                    /\ s_last_time' = IF resp.kind = "transport" THEN s_time
                                      ELSE s_time + 1
                    /\ s_error_q' = put
                    /\ s_errPut' = put
                    /\ UNCHANGED <<s_pc, s_cfg, s_stopped, s_file_open,
                                   s_sink, serverHist>>

\* Thread.start(): run() opens the file and writes the header
ServerStart ==
  /\ UNCHANGED nonServerVars
  /\ s_phase = "ready"
  /\ s_phase' = "running"
  /\ s_pc' = "check"
  /\ s_file_open' = TRUE
  /\ s_sink' = <<HeaderLine>>
  /\ UNCHANGED <<s_cfg, s_models, s_monitor, s_limit, s_stats, s_srv, s_time,
                 s_last_time, s_stopped, s_error_q, s_errPut, serverHist>>

\* while not self.stopped: the loop goes on
ServerLoopEnter ==
  /\ UNCHANGED nonServerVars
  /\ s_phase = "running" /\ s_pc = "check"
  /\ LoopGoesOn(s_stopped)
  /\ s_polls < MaxPolls
  /\ s_pc' = "body"
  /\ UNCHANGED <<s_phase, s_cfg, s_models, s_monitor, s_limit, s_stats,
                 s_srv, s_time, s_last_time, s_stopped, s_error_q,
                 s_file_open, s_sink, s_errPut, serverHist>>

\* while not self.stopped: the loop ends, the file is closed, run() returns
ServerRunExit ==
  /\ UNCHANGED nonServerVars
  /\ s_phase = "running" /\ s_pc = "check"
  /\ ~LoopGoesOn(s_stopped)
  /\ s_phase' = "done"
  /\ s_file_open' = FileAfterWith(s_file_open)
  /\ UNCHANGED <<s_pc, s_cfg, s_models, s_monitor, s_limit, s_stats, s_srv,
                 s_time, s_last_time, s_stopped, s_error_q, s_sink, s_errPut,
                 serverHist>>

\* one iteration of the loop of run(): _get_values(), the rows written, and
\* the except clauses
ServerRunIter ==
  /\ UNCHANGED nonServerVars
  /\ s_phase = "running" /\ s_pc = "body"
  /\ \E resp \in Responses(s_models, s_srv) :
       LET self == [models |-> s_models, monitor |-> s_monitor,
                    limit |-> s_limit]
           poll == s_polls + 1
           res == GetValues(self, resp, (s_time + 1) - s_last_time, s_stats)
           w == WriteRows(RowsToWrite(res), 1, poll, s_sink)
           unstable == res.kind = "unstable"
           fault == res.kind = "exc" \/ ~w.ok
           put == (IF unstable THEN <<ErrValue(res.t)>> ELSE <<>>)
                  \o HandlerPut(res, w.ok)
       IN  /\ s_stats' = res.stats
           /\ s_srv' = resp.srv
           /\ s_time' = s_time + 1
           /\ s_last_time' = IF resp.kind = "transport" THEN s_last_time
                             ELSE s_time + 1
           /\ s_sink' = w.sink
           /\ s_stopped' = (s_stopped \/ HandlerStops(res, w.ok))
           /\ s_error_q' = s_error_q \o put
           /\ s_errPut' = s_errPut \o put
           /\ s_polls' = poll
           /\ s_stopCause' = IF unstable THEN "unstable"
                             ELSE IF fault THEN "fault" ELSE s_stopCause
           /\ s_breachPoll' = IF unstable THEN poll ELSE s_breachPoll
           /\ s_returned' =
                IF res.kind = "rows"
                  THEN s_returned \o
                       [k \in 1..Len(res.rows) |-> Line(poll, res.rows[k])]
                  ELSE s_returned
           /\ s_last' = [kind |-> resp.kind, missing |-> resp.missing,
                          unchanged |-> {m \in SeqRange(s_models) :
                                           resp.srv[m].count = s_srv[m].count},
                          outcome |-> res.kind]
           /\ s_pc' = "check"
           /\ UNCHANGED <<s_phase, s_cfg, s_models, s_monitor, s_limit,
                          s_file_open, s_errGot>>

\* stop(), called by the owner of the monitor
ServerStop ==
  /\ UNCHANGED nonServerVars
  /\ s_phase \in {"ready", "running", "done"}
  /\ ~s_stopped
  /\ s_stopped' = TRUE
  /\ UNCHANGED <<s_phase, s_pc, s_cfg, s_models, s_monitor, s_limit, s_stats,
                 s_srv, s_time, s_last_time, s_error_q, s_file_open, s_sink,
                 s_errPut, serverHist>>

\* the error accessor, when the queue is not empty (on Empty it returns None
\* and changes nothing)
ServerError ==
  /\ UNCHANGED nonServerVars
  /\ s_phase \in {"ready", "running", "done"}
  /\ s_error_q # <<>>
  /\ s_errGot' = Append(s_errGot, Head(s_error_q))
  /\ s_error_q' = Tail(s_error_q)
  /\ UNCHANGED <<s_phase, s_pc, s_cfg, s_models, s_monitor, s_limit, s_stats,
                 s_srv, s_time, s_last_time, s_stopped, s_file_open, s_sink,
                 s_errPut, s_polls, s_stopCause, s_breachPoll, s_returned,
                 s_last>>

NextServer ==
  \/ ServerConstruct
  \/ ServerStart
  \/ ServerLoopEnter
  \/ ServerRunIter
  \/ ServerRunExit
  \/ ServerStop
  \/ ServerError

\* ======================================================================
\* ClientStatsMonitor (src/measurement.py) and the clients that feed it
\* ======================================================================
MaxTuples == 3       \* data tuples a client puts on its metric queue

client_columns ==
  <<"client_id", "message_start", "data_syncd", "request_send",
    "request_return">>

\* the clients of a monitor, in the order of self.qs: their time origins
\* and the tuples they measure ("single": two timestamps, "full": the four
\* timestamps of the columns); and the caller of _get_values(): the loop
\* of run(), or the owner of the monitor directly
ClientConfigs ==
  {[driver |-> "direct", origins |-> <<0>>, shapes |-> <<"single">>],
   [driver |-> "run", origins |-> <<0>>, shapes |-> <<"single">>],
   [driver |-> "run", origins |-> <<0>>, shapes |-> <<"full">>],
   [driver |-> "run", origins |-> <<0, 0>>, shapes |-> <<"full", "full">>],
   [driver |-> "run", origins |-> <<0, 0>>, shapes |-> <<"full", "single">>],
   [driver |-> "run", origins |-> <<0, 1>>, shapes |-> <<"full", "full">>]}

ClientsOf(cfg) == 1..Len(cfg.origins)

\* the k-th item client p puts on its metric queue: ("start_time", t0)
\* first, then its data tuples; the j-th data tuple starts at the origin
\* and returns j later
Item(cfg, p, k) ==
  IF k = 1
    THEN [kind |-> "start_time", ts |-> <<cfg.origins[p]>>]
    ELSE LET j == k - 1
             offsets == IF cfg.shapes[p] = "single" THEN <<0, j>>
                        ELSE <<0, 1, 1, j>>
         IN  [kind |-> "data",
              ts |-> [h \in 1..Len(offsets) |-> cfg.origins[p] + offsets[h]]]

\* arithmetic of the quotients
FracAdd(a, b) == Quot(a.num * b.den + b.num * a.den, a.den * b.den)
FracNeg(a) == [num |-> -a.num, den |-> a.den]
FracOver(a, n) == Quot(a.num, a.den * n)

Unset == [set |-> FALSE, t |-> 0]

\* a faulty variant of RunningMean: the difference is not divided by n
RunningMean_NoDiv(mean, latency, n) ==
  FracAdd(mean, FracAdd(Quot(latency, 1), FracNeg(mean)))

\* self._latency += (latency - self._latency) / self.n
RunningMean(mean, latency, n) ==
  FracAdd(mean, FracOver(FracAdd(Quot(latency, 1), FracNeg(mean)), n))

\* how a call of ClientStatsMonitor._get_values() ends: the fields it
\* leaves, the rows it returns ("rows"), or None ("none"), or the
\* exception it raises ("exc"), and the values it published
ClientOutcome(kind, st, rows, exc, pub) ==
  [kind |-> kind, st |-> st, rows |-> rows, exc |-> exc, pub |-> pub]

NoPub == [throughput |-> <<>>, request_rate |-> <<>>, latency |-> <<>>]

\* the lines after the loop over self.qs, with the measurements of the
\* last data tuple of the loop
ClientPublish(st, values, measurements) ==
  IF Len(values) = 0
    THEN ClientOutcome("none", st, <<>>, "", NoPub)
  ELSE IF measurements[Len(measurements)] = 0
    THEN ClientOutcome("exc", st, <<>>, "ZeroDivisionError", NoPub)
  ELSE IF measurements[2] = 0
    THEN ClientOutcome("exc", st, <<>>, "ZeroDivisionError",
           [NoPub EXCEPT !.throughput =
              <<Quot(st.n, measurements[Len(measurements)])>>])
  ELSE ClientOutcome("rows", st, values, "",
         [throughput |-> <<Quot(st.n, measurements[Len(measurements)])>>,
          request_rate |-> <<Quot(st.n, measurements[2])>>,
          latency |-> <<st.latency>>])

\* for client_id, q in self.qs.items(), from the i-th client on; st holds
\* the queues, start_time, n, _latency and the histories
RECURSIVE ClientLoop(_, _, _, _, _)
ClientLoop(st, poll, i, values, measurements) ==
  IF i > Len(st.qs)
    THEN ClientPublish(st, values, measurements)
  ELSE IF st.qs[i] = <<>>
    THEN ClientLoop(st, poll, i + 1, values, measurements)
  ELSE
    LET item == Head(st.qs[i])
        got == [st EXCEPT !.qs[i] = Tail(st.qs[i]),
                          !.consumed = Append(st.consumed,
                                         [client |-> i, poll |-> poll,
                                          item |-> item])]
    IN  IF item.kind = "start_time"
          THEN ClientOutcome("none",
                 [got EXCEPT !.start_time = [set |-> TRUE, t |-> item.ts[1]]],
                 <<>>, "", NoPub)
        ELSE IF ~got.start_time.set
          THEN ClientOutcome("exc", got, <<>>, "AttributeError", NoPub)
        ELSE
          LET ms == [h \in 1..Len(item.ts) |-> item.ts[h] - got.start_time.t]
              n == got.n + 1
              latency == ms[Len(ms)] - ms[1]
              mean == RunningMean(got.latency, latency, n)
              st2 == [got EXCEPT !.n = n, !.latency = mean,
                                 !.means = Append(got.means, mean)]
          IN  ClientLoop(st2, poll, i + 1, Append(values, <<i>> \o ms), ms)

\* ClientStatsMonitor._get_values()
ClientGetValues(st, poll) == ClientLoop(st, poll, 1, <<>>, <<>>)

\* the fields of the monitor that _get_values() reads and writes
ClientState ==
  [qs |-> c_qs, start_time |-> c_start_time, n |-> c_n,
   latency |-> c_latency, consumed |-> c_consumed, means |-> c_means]

\* a ClientStatsMonitor in the given phase, nothing measured yet
ClientAt(phase, cfg) ==
  /\ c_phase = phase
  /\ c_pc = "check"
  /\ c_cfg = cfg
  /\ c_sent = [p \in ClientsOf(cfg) |-> 0]
  /\ c_qs = [p \in ClientsOf(cfg) |-> <<>>]
  /\ c_start_time = Unset
  /\ c_n = 0
  /\ c_latency = Quot(0, 1)
  /\ c_throughput_q = <<>>
  /\ c_request_rate_q = <<>>
  /\ c_latency_q = <<>>
  /\ c_stopped = FALSE
  /\ c_error_q = <<>>
  /\ c_file_open = FALSE
  /\ c_sink = <<>>
  /\ c_polls = 0
  /\ c_errPut = <<>>
  /\ c_errGot = <<>>
  /\ c_raised = <<>>
  /\ c_consumed = <<>>
  /\ c_returned = <<>>
  /\ c_means = <<>>
  /\ c_bad = <<>>

\* ClientStatsMonitor.__init__
ClientInit == \E cfg \in ClientConfigs : ClientAt("ready", cfg)
ClientIdle ==
  ClientAt("absent",
           [driver |-> "run", origins |-> <<0>>, shapes |-> <<"full">>])

clientWriter == <<c_stopped, c_error_q, c_file_open, c_sink, c_errPut,
                  c_errGot, c_bad>>
clientFields == <<c_start_time, c_n, c_latency, c_throughput_q,
                  c_request_rate_q, c_latency_q, c_polls, c_consumed,
                  c_returned, c_means>>

\* what a call of _get_values() leaves in the fields of the monitor
ClientApply(res, poll) ==
  /\ c_qs' = res.st.qs
  /\ c_start_time' = res.st.start_time
  /\ c_n' = res.st.n
  /\ c_latency' = res.st.latency
  /\ c_consumed' = res.st.consumed
  /\ c_means' = res.st.means
  /\ c_throughput_q' = c_throughput_q \o res.pub.throughput
  /\ c_request_rate_q' = c_request_rate_q \o res.pub.request_rate
  /\ c_latency_q' = c_latency_q \o res.pub.latency
  /\ c_polls' = IF res.st.consumed = c_consumed THEN c_polls ELSE poll
  /\ c_returned' =
       IF res.kind = "rows"
         THEN c_returned \o [k \in 1..Len(res.rows) |-> Line(poll, res.rows[k])]
         ELSE c_returned

\* a client puts its next tuple on its metric queue
ClientEmit ==
  /\ UNCHANGED nonClientVars
  /\ c_phase \in {"ready", "running"}
  /\ \E p \in ClientsOf(c_cfg) :
       /\ c_sent[p] < 1 + MaxTuples
       /\ c_sent' = [c_sent EXCEPT ![p] = @ + 1]
       /\ c_qs' = [c_qs EXCEPT ![p] = Append(@, Item(c_cfg, p, c_sent[p] + 1))]
  /\ UNCHANGED <<c_phase, c_pc, c_cfg, c_start_time, c_n, c_latency,
                 c_throughput_q, c_request_rate_q, c_latency_q, c_polls,
                 c_raised, c_consumed, c_returned, c_means, clientWriter>>

\* the owner calls _get_values() itself: an exception reaches the owner
ClientPoll ==
  /\ UNCHANGED nonClientVars
  /\ c_cfg.driver = "direct"
  /\ c_phase = "ready"
  /\ LET poll == c_polls + 1
         res == ClientGetValues(ClientState, poll)
     IN  /\ ClientApply(res, poll)
         /\ c_raised' = IF res.kind = "exc" THEN Append(c_raised, res.exc)
                        ELSE c_raised
  /\ UNCHANGED <<c_phase, c_pc, c_cfg, c_sent, clientWriter>>

\* Thread.start(): run() opens the file and writes the header
ClientStart ==
  /\ UNCHANGED nonClientVars
  /\ c_cfg.driver = "run"
  /\ c_phase = "ready"
  /\ c_phase' = "running"
  /\ c_pc' = "check"
  /\ c_file_open' = TRUE
  /\ c_sink' = <<Line(0, client_columns)>>
  /\ UNCHANGED <<c_cfg, c_sent, c_qs, c_stopped, c_error_q, c_errPut,
                 c_errGot, c_bad, c_raised, clientFields>>

\* while not self.stopped: the loop goes on
ClientLoopEnter ==
  /\ UNCHANGED nonClientVars
  /\ c_phase = "running" /\ c_pc = "check"
  /\ LoopGoesOn(c_stopped)
  /\ c_pc' = "body"
  /\ UNCHANGED <<c_phase, c_cfg, c_sent, c_qs, c_raised, clientWriter,
                 clientFields>>

\* while not self.stopped: the loop ends, the file is closed, run() returns
ClientRunExit ==
  /\ UNCHANGED nonClientVars
  /\ c_phase = "running" /\ c_pc = "check"
  /\ ~LoopGoesOn(c_stopped)
  /\ c_phase' = "done"
  /\ c_file_open' = FileAfterWith(c_file_open)
  /\ UNCHANGED <<c_pc, c_cfg, c_sent, c_qs, c_stopped, c_error_q, c_sink,
                 c_errPut, c_errGot, c_bad, c_raised, clientFields>>

\* one iteration of the loop of run(): _get_values(), the rows written, and
\* the except clauses
ClientRunIter ==
  /\ UNCHANGED nonClientVars
  /\ c_phase = "running" /\ c_pc = "body"
  /\ LET poll == c_polls + 1
         res == ClientGetValues(ClientState, poll)
         w == WriteRowsTo(client_columns, RowsToWrite(res), 1, poll, c_sink)
         fault == res.kind = "exc" \/ ~w.ok
         put == HandlerPut(res, w.ok)
     IN  /\ ClientApply(res, poll)
         /\ c_sink' = w.sink
         /\ c_stopped' = (c_stopped \/ HandlerStops(res, w.ok))
         /\ c_error_q' = c_error_q \o put
         /\ c_errPut' = c_errPut \o put
         /\ c_bad' = IF w.ok THEN c_bad ELSE Append(c_bad, poll)
  /\ c_pc' = "check"
  /\ UNCHANGED <<c_phase, c_cfg, c_sent, c_file_open, c_errGot, c_raised>>

\* stop(), called by the owner of the monitor
ClientStop ==
  /\ UNCHANGED nonClientVars
  /\ c_cfg.driver = "run"
  /\ c_phase \in {"ready", "running"}
  /\ ~c_stopped
  /\ c_stopped' = TRUE
  /\ UNCHANGED <<c_phase, c_pc, c_cfg, c_sent, c_qs, c_error_q, c_file_open,
                 c_sink, c_errPut, c_errGot, c_bad, c_raised, clientFields>>

\* the error accessor, when the queue is not empty (on Empty it returns None
\* and changes nothing)
ClientError ==
  /\ UNCHANGED nonClientVars
  /\ c_phase \in {"ready", "running", "done"}
  /\ c_error_q # <<>>
  /\ c_errGot' = Append(c_errGot, Head(c_error_q))
  /\ c_error_q' = Tail(c_error_q)
  /\ UNCHANGED <<c_phase, c_pc, c_cfg, c_sent, c_qs, c_stopped, c_file_open,
                 c_sink, c_errPut, c_bad, c_raised, clientFields>>

NextClient ==
  \/ ClientEmit
  \/ ClientPoll
  \/ ClientStart
  \/ ClientLoopEnter
  \/ ClientRunIter
  \/ ClientRunExit
  \/ ClientStop
  \/ ClientError

\* ======================================================================
\* The accessors of ClientStatsMonitor (src/measurement.py)
\* ======================================================================
DrainRange == 100      \* for i in range(100)
MaxPublished == 102    \* values published on the queue of an accessor

Accessors == {"latency", "throughput", "request_rate"}

\* the measurements, shifted by start_time, of the k-th data tuple of the
\* client that feeds the monitor
Measured(k) == <<0, 2, 2, IF k = 1 THEN 3 ELSE 4>>

\* what _get_values() puts on the queue of an accessor once the data tuple
\* ms has made self.n n and self._latency mean
Published(kind, n, mean, ms) ==
  CASE kind = "throughput" -> Quot(n, ms[Len(ms)])
    [] kind = "request_rate" -> Quot(n, ms[2])
    [] kind = "latency" -> mean

\* int(x): truncation toward zero
IntOf(x) ==
  IF x.num >= 0 THEN x.num \div x.den ELSE -((-x.num) \div x.den)

\* what an accessor returns for its local value: latency returns
\* int(value * 10**6), the others the value
ReturnOf(kind, value) ==
  IF kind = "latency"
    THEN Quot(IntOf(Quot(value.num * 10^6, value.den)), 1)
    ELSE value

\* a faulty variant of InRange: while True
InRange_Forever(i) == TRUE

\* for i in range(100)
InRange(i) == i < DrainRange

NoRet == [removed |-> -1]

AccessorAt(phase, kind) ==
  /\ a_phase = phase
  /\ a_kind = kind
  /\ a_n = 0
  /\ a_latency = Quot(0, 1)
  /\ a_q = <<>>
  /\ a_pc = "idle"
  /\ a_i = 0
  /\ a_value = Quot(0, 1)
  /\ a_ret = NoRet

\* ClientStatsMonitor.__init__
AccessorInit == \E kind \in Accessors : AccessorAt("live", kind)
AccessorIdle == AccessorAt("absent", "latency")

\* _get_values() consumes a data tuple and publishes (the thread of
\* run())
AccessorPublish ==
  /\ a_phase = "live"
  /\ a_n < MaxPublished
  /\ LET ms == Measured(a_n + 1)
         n == a_n + 1
         mean == RunningMean(a_latency, ms[Len(ms)] - ms[1], n)
     IN  /\ a_n' = n
         /\ a_latency' = mean
         /\ a_q' = Append(a_q, Published(a_kind, n, mean, ms))
  /\ a_ret' = NoRet
  /\ UNCHANGED <<a_phase, a_kind, a_pc, a_i, a_value>>
  /\ UNCHANGED nonAccessorVars

\* the owner reads the accessor: value = 0, and the for loop begins
AccessorCall ==
  /\ a_phase = "live"
  /\ a_pc = "idle"
  /\ a_pc' = "loop"
  /\ a_i' = 0
  /\ a_value' = Quot(0, 1)
  /\ UNCHANGED <<a_phase, a_kind, a_n, a_latency, a_q, a_ret>>
  /\ UNCHANGED nonAccessorVars

\* the accessor returns, having removed i values
AccessorReturn(i, value, q) ==
  /\ a_pc' = "idle"
  /\ a_i' = 0
  /\ a_value' = Quot(0, 1)
  /\ a_ret' = [removed |-> i, ret |-> ReturnOf(a_kind, value),
               published |-> a_n, left |-> Len(q)]

\* one get_nowait() of the for loop: Empty breaks the loop and the
\* accessor returns; it returns too once a removal ends the range
AccessorIter ==
  /\ a_phase = "live"
  /\ a_pc = "loop"
  /\ IF a_q = <<>>
       THEN /\ AccessorReturn(a_i, a_value, a_q)
            /\ a_q' = a_q
       ELSE /\ a_q' = Tail(a_q)
            /\ IF InRange(a_i + 1)
                 THEN /\ a_i' = a_i + 1
                      /\ a_value' = Head(a_q)
                      /\ UNCHANGED <<a_pc, a_ret>>
                 ELSE AccessorReturn(a_i + 1, Head(a_q), Tail(a_q))
  /\ UNCHANGED <<a_phase, a_kind, a_n, a_latency>>
  /\ UNCHANGED nonAccessorVars

NextAccessor ==
  \/ AccessorPublish
  \/ AccessorCall
  \/ AccessorIter

\* ======================================================================
\* GCPFrameDataGenerator and read_frames (src/frame_reader.py)
\* ======================================================================
MaxCalls == 4        \* calls of __next__ and stop() by the owner
MaxIters == 2        \* calls of __iter__ by the owner
Channels == 2        \* rows of a frame: len(channels)

Gwf(n) == [kind |-> "gwf", len |-> n]
OtherBlob == [kind |-> "other", len |-> 0]
BadBlob == [kind |-> "fault", len |-> 0]

\* the buckets: whether get_bucket succeeds, the blobs list_blobs yields
\* (a .gwf file of some samples, another file, a .gwf file whose download
\* or parsing raises), and int(kernel_stride * sample_rate)
FrameConfigs ==
  {[lookup |-> "ok", blobs |-> <<Gwf(7), Gwf(7)>>, step |-> 3],
   [lookup |-> "ok", blobs |-> <<OtherBlob, Gwf(7)>>, step |-> 3],
   [lookup |-> "ok", blobs |-> <<Gwf(1), Gwf(1), Gwf(7)>>, step |-> 3],
   [lookup |-> "ok", blobs |-> <<Gwf(7), BadBlob>>, step |-> 3],
   [lookup |-> "fault", blobs |-> <<>>, step |-> 3]}

\* the samples before the i-th blob
RECURSIVE SamplesBefore(_, _)
SamplesBefore(blobs, i) ==
  IF i <= 1 THEN 0
  ELSE SamplesBefore(blobs, i - 1) + blobs[i - 1].len

\* np.stack(...) of the i-th blob: its samples, numbered along the list
FrameOf(blobs, i) ==
  [j \in 1..blobs[i].len |-> SamplesBefore(blobs, i) + j]

Block(cols) == [kind |-> "block", cols |-> cols, err |-> ""]
\* ExceptionWrapper(e)
Envelope(e) == [kind |-> "envelope", cols |-> <<>>, err |-> e]

\* self._frame: None, or an array of Channels rows over the samples cols
NoFrame == [none |-> TRUE, cols |-> <<>>]
Frame(cols) == [none |-> FALSE, cols |-> cols]

\* the test of line 130
NeedBlock(frame, ix, step) ==
  frame.none \/ (ix + 1) * step > Len(frame.cols)

\* a variant of Leftover that takes None for an empty buffer
Leftover_OfNone(frame, ix, step) ==
  IF frame.none
    THEN [raised |-> FALSE, cols |-> <<>>]
  ELSE IF ix * step < Len(frame.cols)
    THEN [raised |-> FALSE,
          cols |-> SubSeq(frame.cols, ix * step + 1, Len(frame.cols))]
  ELSE [raised |-> FALSE, cols |-> <<>>]

\* lines 144-145: self._frame.shape raises AttributeError while
\* self._frame is None; else the columns from idx * step on, if any
Leftover(frame, ix, step) ==
  IF frame.none
    THEN [raised |-> TRUE, cols |-> <<>>]
  ELSE IF ix * step < Len(frame.cols)
    THEN [raised |-> FALSE,
          cols |-> SubSeq(frame.cols, ix * step + 1, Len(frame.cols))]
  ELSE [raised |-> FALSE, cols |-> <<>>]

\* line 155: self._frame[idx * step: (idx + 1) * step] slices the rows of
\* the array, and keeps every column
Window(frame, ix, step) ==
  [rows |-> {r \in 1..Channels : ix * step < r /\ r <= (ix + 1) * step},
   cols |-> frame.cols]
NoWindow == [rows |-> {}, cols |-> <<>>]

\* how a call of __next__ or stop() ended: what it returned or raised,
\* whether it took a block from the queue, and self._frame, the queue and
\* the process as it left them
Ended(op, kind, err, window, took, buffer, pending, alive, term) ==
  [op |-> op, kind |-> kind, err |-> err, window |-> window, took |-> took,
   buffer |-> buffer, pending |-> pending, alive |-> alive, term |-> term]

\* the process of read_frames is running
FetchAlive == f_pc \notin {"none", "dead"}

\* a generator in the given phase; no fetch process yet
FrameAt(phase, cfg) ==
  /\ g_phase = phase
  /\ g_cfg = cfg
  /\ g_frame = NoFrame
  /\ g_idx = 0
  /\ g_q = <<>>
  /\ g_stop_event = FALSE
  /\ g_closed = FALSE
  /\ g_pc = "idle"
  /\ f_pc = "none"
  /\ f_i = 0
  /\ f_err = ""
  /\ f_signalled = FALSE
  /\ g_iters = 0
  /\ g_log = <<>>
  /\ g_taken = <<>>

\* GCPFrameDataGenerator.__init__
FrameInit == \E cfg \in FrameConfigs : FrameAt("new", cfg)
FrameIdle ==
  FrameAt("absent", [lookup |-> "fault", blobs |-> <<>>, step |-> 3])

genFields == <<g_frame, g_idx>>
fetchVars == <<f_pc, f_i, f_err>>

\* ---- read_frames ----
\* credentials, client and bucket lookup
FetchSetup ==
  /\ f_pc = "setup"
  /\ IF g_cfg.lookup = "ok"
       THEN f_pc' = "top" /\ f_i' = 1 /\ f_err' = f_err
       ELSE f_pc' = "except" /\ f_i' = f_i /\ f_err' = "ValueError"
  /\ UNCHANGED <<g_phase, g_cfg, genFields, g_q, g_stop_event, g_closed,
                 g_pc, f_signalled, g_iters, g_log, g_taken>>
  /\ UNCHANGED nonFrameVars

\* the head of the loop over the blobs: the stop event, the name of the
\* blob, its download and parsing
FetchTop ==
  /\ f_pc = "top"
  /\ IF f_i > Len(g_cfg.blobs) \/ g_stop_event
       THEN f_pc' = "return" /\ f_i' = f_i /\ f_err' = f_err
     ELSE IF g_cfg.blobs[f_i].kind = "other"
       THEN f_pc' = "top" /\ f_i' = f_i + 1 /\ f_err' = f_err
     ELSE IF g_cfg.blobs[f_i].kind = "fault"
       THEN f_pc' = "except" /\ f_i' = f_i /\ f_err' = "IOError"
     ELSE f_pc' = "wait" /\ f_i' = f_i /\ f_err' = f_err
  /\ UNCHANGED <<g_phase, g_cfg, genFields, g_q, g_stop_event, g_closed,
                 g_pc, f_signalled, g_iters, g_log, g_taken>>
  /\ UNCHANGED nonFrameVars

\* while q.full(): if stop_event.is_set(): raise _RaisedFromParent
FetchWait ==
  /\ f_pc = "wait"
  /\ \/ Len(g_q) < 1 /\ f_pc' = "put"
     \/ Len(g_q) >= 1 /\ g_stop_event /\ f_pc' = "return"
  /\ UNCHANGED <<g_phase, g_cfg, genFields, g_q, g_stop_event, g_closed,
                 g_pc, f_i, f_err, f_signalled, g_iters, g_log, g_taken>>
  /\ UNCHANGED nonFrameVars

\* q.put(frame)
FetchPut ==
  /\ f_pc = "put"
  /\ Len(g_q) < 1
  /\ g_q' = Append(g_q, Block(FrameOf(g_cfg.blobs, f_i)))
  /\ f_i' = f_i + 1
  /\ f_pc' = "top"
  /\ UNCHANGED <<g_phase, g_cfg, genFields, g_stop_event, g_closed, g_pc,
                 f_err, f_signalled, g_iters, g_log, g_taken>>
  /\ UNCHANGED nonFrameVars

\* except Exception as e: q.put(ExceptionWrapper(e)), a put that waits
\* for room
FetchExcept ==
  /\ f_pc = "except"
  /\ Len(g_q) < 1
  /\ g_q' = Append(g_q, Envelope(f_err))
  /\ f_pc' = "return"
  /\ UNCHANGED <<g_phase, g_cfg, genFields, g_stop_event, g_closed, g_pc,
                 f_i, f_err, f_signalled, g_iters, g_log, g_taken>>
  /\ UNCHANGED nonFrameVars

\* read_frames has returned and its process exits
FetchExit ==
  /\ f_pc = "return"
  /\ f_pc' = "dead"
  /\ UNCHANGED <<g_phase, g_cfg, genFields, g_q, g_stop_event, g_closed,
                 g_pc, f_i, f_err, f_signalled, g_iters, g_log, g_taken>>
  /\ UNCHANGED nonFrameVars

\* SIGTERM ends the process
FetchKilled ==
  /\ f_signalled
  /\ FetchAlive
  /\ f_pc' = "dead"
  /\ UNCHANGED <<g_phase, g_cfg, genFields, g_q, g_stop_event, g_closed,
                 g_pc, f_i, f_err, f_signalled, g_iters, g_log, g_taken>>
  /\ UNCHANGED nonFrameVars

\* the steps read_frames takes by itself
FetchStep ==
  FetchSetup \/ FetchTop \/ FetchWait \/ FetchPut \/ FetchExcept
    \/ FetchExit

\* ---- the owner of the generator ----
Calls == Len(g_log)

\* __iter__: a new queue, a new event and a new process, started (the
\* owner iterates again only when no fetch process is running)
GenIter ==
  /\ g_phase \in {"new", "started"}
  /\ g_pc = "idle"
  /\ ~FetchAlive
  /\ g_iters < MaxIters
  /\ g_phase' = "started"
  /\ g_q' = <<>>
  /\ g_stop_event' = FALSE
  /\ g_closed' = FALSE
  /\ f_pc' = "setup"
  /\ f_i' = 0
  /\ f_err' = ""
  /\ f_signalled' = FALSE
  /\ g_iters' = g_iters + 1
  /\ UNCHANGED <<g_cfg, genFields, g_pc, g_log, g_taken>>
  /\ UNCHANGED nonFrameVars

\* __next__ ends: what it returned or raised
NextEnds(kind, err, window, took, frame, q) ==
  /\ g_pc' = "idle"
  /\ g_log' = Append(g_log,
                Ended("next", kind, err, window, took, frame, q,
                      FetchAlive, FALSE))

\* lines 152-158: the window at self._idx (the pacing wait changes
\* nothing)
NextPackage(took, frame, ix, q) ==
  NextEnds("package", "", Window(frame, ix, g_cfg.step), took, frame, q)

\* __next__ up to the test of line 130; without __iter__ there is no
\* self._q
GenNext ==
  /\ g_phase \in {"new", "started"}
  /\ g_pc = "idle"
  /\ Calls < MaxCalls
  /\ g_idx' = g_idx + 1
  /\ g_frame' = g_frame
  /\ IF ~NeedBlock(g_frame, g_idx + 1, g_cfg.step)
       THEN NextPackage(FALSE, g_frame, g_idx + 1, g_q)
     ELSE IF g_phase = "new"
       THEN NextEnds("AttributeError", "", NoWindow, FALSE, g_frame, g_q)
     ELSE g_pc' = "get" /\ g_log' = g_log
  /\ UNCHANGED <<g_phase, g_cfg, g_q, g_stop_event, g_closed, fetchVars,
                 f_signalled, g_iters, g_taken>>
  /\ UNCHANGED nonFrameVars

\* self._q.get_nowait() and, with a block, the rest of __next__
GenGet ==
  /\ g_pc = "get"
  /\ IF g_q = <<>>
       THEN /\ g_pc' = "alive"
            /\ UNCHANGED <<g_q, genFields, g_log, g_taken>>
     ELSE
       LET item == Head(g_q)
           leftover == Leftover(g_frame, g_idx, g_cfg.step)
           frame == Frame(leftover.cols \o item.cols)
       IN  /\ g_q' = Tail(g_q)
           /\ IF item.kind = "envelope"
                THEN /\ UNCHANGED <<genFields, g_taken>>
                     /\ NextEnds("reraise", item.err, NoWindow, FALSE,
                                 g_frame, Tail(g_q))
              ELSE IF leftover.raised
                THEN /\ UNCHANGED genFields
                     /\ g_taken' = Append(g_taken, item.cols)
                     /\ NextEnds("AttributeError", "", NoWindow, TRUE,
                                 g_frame, Tail(g_q))
              ELSE /\ g_frame' = frame
                   /\ g_idx' = 0
                   /\ g_taken' = Append(g_taken, item.cols)
                   /\ NextPackage(TRUE, frame, 0, Tail(g_q))
  /\ UNCHANGED <<g_phase, g_cfg, g_stop_event, g_closed, fetchVars,
                 f_signalled, g_iters>>
  /\ UNCHANGED nonFrameVars

\* except Empty: self._frame_reader.is_alive(), which raises ValueError
\* on a closed process
GenAlive ==
  /\ g_pc = "alive"
  /\ IF g_closed
       THEN NextEnds("ValueError", "", NoWindow, FALSE, g_frame, g_q)
     ELSE IF ~FetchAlive
       THEN NextEnds("StopIteration", "", NoWindow, FALSE, g_frame, g_q)
     ELSE g_pc' = "get" /\ g_log' = g_log
  /\ UNCHANGED <<g_phase, g_cfg, genFields, g_q, g_stop_event, g_closed,
                 fetchVars, f_signalled, g_iters, g_taken>>
  /\ UNCHANGED nonFrameVars

\* stop() ends: returned or raised
StopEnds(kind, term) ==
  /\ g_pc' = "idle"
  /\ g_log' = Append(g_log,
                Ended("stop", kind, "", NoWindow, FALSE, g_frame, g_q,
                      FetchAlive, term))

\* stop(): self._stop_event.set(); without __iter__ there is no
\* self._stop_event
GenStop ==
  /\ g_phase \in {"new", "started"}
  /\ g_pc = "idle"
  /\ Calls < MaxCalls
  /\ IF g_phase = "new"
       THEN StopEnds("AttributeError", FALSE) /\ g_stop_event' = g_stop_event
       ELSE g_stop_event' = TRUE /\ g_pc' = "join" /\ g_log' = g_log
  /\ UNCHANGED <<g_phase, g_cfg, genFields, g_q, g_closed, fetchVars,
                 f_signalled, g_iters, g_taken>>
  /\ UNCHANGED nonFrameVars

\* self._frame_reader.join(0.5): raises ValueError on a closed process,
\* else returns once the process has exited or 0.5 seconds have passed
GenStopJoin ==
  /\ g_pc = "join"
  /\ IF g_closed
       THEN StopEnds("ValueError", FALSE)
       ELSE g_pc' = "close" /\ g_log' = g_log
  /\ UNCHANGED <<g_phase, g_cfg, genFields, g_q, g_stop_event, g_closed,
                 fetchVars, f_signalled, g_iters, g_taken>>
  /\ UNCHANGED nonFrameVars

\* close() raises ValueError on a process that is running
CloseRaises == FetchAlive

\* self._frame_reader.close(), and terminate() when it raises
GenStopClose ==
  /\ g_pc = "close"
  /\ IF CloseRaises
       THEN /\ f_signalled' = TRUE
            /\ g_closed' = g_closed
            /\ StopEnds("returned", TRUE)
       ELSE /\ f_signalled' = f_signalled
            /\ g_closed' = TRUE
            /\ StopEnds("returned", FALSE)
  /\ UNCHANGED <<g_phase, g_cfg, genFields, g_q, g_stop_event, fetchVars,
                 g_iters, g_taken>>
  /\ UNCHANGED nonFrameVars

NextFrame ==
  \/ FetchSetup
  \/ FetchTop
  \/ FetchWait
  \/ FetchPut
  \/ FetchExcept
  \/ FetchExit
  \/ FetchKilled
  \/ GenIter
  \/ GenNext
  \/ GenGet
  \/ GenAlive
  \/ GenStop
  \/ GenStopJoin
  \/ GenStopClose

\* ======================================================================
\* main (src/client.py): the receive loop and the shutdown of the client
\* ======================================================================
MaxIterations == 2   \* the largest num_iterations
MaxSent == 3         \* objects the client process puts on its output pipes
NumClients == 2      \* num_clients: the data sources, one output pipe each
PipeCap == 1         \* objects an output pipe holds unread

Sources == 1..NumClients

\* what the client process writes to an output pipe: a package, or the
\* envelope of an exception raised inside it
Package == "package"
Wrapped == "ExceptionWrapper"

\* main at the given position, with the argument num_iterations
MainAt(at, n) ==
  /\ b_pc = at
  /\ b_num_iterations = n
  /\ b_received = 0
  /\ b_i = 1
  /\ b_pipes = [s \in Sources |-> <<>>]
  /\ b_proc = "new"
  /\ b_stop = FALSE
  /\ b_exc = ""
  /\ b_sent = 0
  /\ b_calls = <<>>
  /\ b_file = FALSE

\* main has built the client and its output pipes and is at line 76
MainInit == \E n \in 1..MaxIterations : MainAt("init", n)
MainIdle == MainAt("absent", 1)

\* num_packages_received = 0 ... client.start(), try, while True, for
MainStart ==
  /\ UNCHANGED nonMainVars
  /\ b_pc = "init"
  /\ b_received' = 0
  /\ b_proc' = "alive"
  /\ b_calls' = Append(b_calls, "start")
  /\ b_pc' = "for"
  /\ b_i' = 1
  /\ UNCHANGED <<b_num_iterations, b_pipes, b_stop, b_exc, b_sent, b_file>>

\* the for loop goes on to the next pipe; after the last one the body of
\* the while loop goes on with the progress bar
ForAdvance ==
  IF b_i < NumClients
    THEN b_i' = b_i + 1 /\ b_pc' = "for"
    ELSE b_i' = b_i /\ b_pc' = "progress"

\* `if num_packages_received == num_iterations: break`: the break leaves the
\* for loop, the statement after it is the progress bar
Break(received, num_iterations) == received = num_iterations

\* one iteration of the for loop over output_pipes
MainPoll ==
  /\ UNCHANGED nonMainVars
  /\ b_pc = "for"
  /\ IF b_pipes[b_i] = <<>>
       THEN /\ ForAdvance
            /\ UNCHANGED <<b_pipes, b_received, b_exc>>
       ELSE /\ b_pipes' = [b_pipes EXCEPT ![b_i] = Tail(@)]
            /\ IF Head(b_pipes[b_i]) = Wrapped
                 THEN /\ b_exc' = "reraised"
                      /\ b_pc' = "stop"
                      /\ UNCHANGED <<b_received, b_i>>
                 ELSE /\ b_received' = b_received + 1
                      /\ UNCHANGED b_exc
                      /\ IF Break(b_received + 1, b_num_iterations)
                           THEN b_pc' = "progress" /\ b_i' = b_i
                           ELSE ForAdvance
  /\ UNCHANGED <<b_num_iterations, b_proc, b_stop, b_sent, b_calls, b_file>>

\* the progress bar is printed, and `while True` starts the for loop again
MainProgress ==
  /\ UNCHANGED nonMainVars
  /\ b_pc = "progress"
  /\ b_pc' = "for"
  /\ b_i' = 1
  /\ UNCHANGED <<b_num_iterations, b_received, b_pipes, b_proc, b_stop,
                 b_exc, b_sent, b_calls, b_file>>

\* finally: client.stop()
MainStop ==
  /\ UNCHANGED nonMainVars
  /\ b_pc = "stop"
  /\ b_stop' = TRUE
  /\ b_calls' = Append(b_calls, "stop")
  /\ b_pc' = "join"
  /\ UNCHANGED <<b_num_iterations, b_received, b_i, b_pipes, b_proc, b_exc,
                 b_sent, b_file>>

\* client.join(1) returns: the process has exited, or the wait timed out
MainJoin ==
  /\ UNCHANGED nonMainVars
  /\ b_pc = "join"
  /\ b_calls' = Append(b_calls, "join")
  /\ b_pc' = "close"
  /\ UNCHANGED <<b_num_iterations, b_received, b_i, b_pipes, b_proc, b_stop,
                 b_exc, b_sent, b_file>>

\* the finally block is over: an exception that left the try block goes on
\* to the caller of main, otherwise the statistics file is written
AfterFinally ==
  IF b_exc = "" THEN b_pc' = "done" /\ b_file' = TRUE /\ UNCHANGED b_exc
                ELSE b_pc' = "raised" /\ UNCHANGED <<b_file, b_exc>>

\* client.close(): ValueError while the process still runs
MainClose ==
  /\ UNCHANGED nonMainVars
  /\ b_pc = "close"
  /\ b_calls' = Append(b_calls, "close")
  /\ IF b_proc = "alive"
       THEN /\ b_pc' = "close2"
            /\ UNCHANGED <<b_proc, b_exc, b_file>>
       ELSE /\ b_proc' = "closed"
            /\ AfterFinally
  /\ UNCHANGED <<b_num_iterations, b_received, b_i, b_pipes, b_stop, b_sent>>

\* client.terminate(), sleep(0.1) and the second client.close(), whose
\* ValueError nothing catches
MainClose2 ==
  /\ UNCHANGED nonMainVars
  /\ b_pc = "close2"
  /\ b_calls' = b_calls \o <<"terminate", "close">>
  /\ IF b_proc = "alive"
       THEN /\ b_pc' = "raised"
            /\ b_exc' = "ValueError"
            /\ UNCHANGED <<b_proc, b_file>>
       ELSE /\ b_proc' = "closed"
            /\ AfterFinally
  /\ UNCHANGED <<b_num_iterations, b_received, b_i, b_pipes, b_stop, b_sent>>

\* the steps of main
MainStep ==
  \/ MainStart \/ MainPoll \/ MainProgress
  \/ MainStop \/ MainJoin \/ MainClose \/ MainClose2

\* an envelope is on a pipe or has been read
Failed == b_exc # "" \/ \E s \in Sources : Wrapped \in SeqRange(b_pipes[s])

\* the client process writes a package to the output pipe of source s
ProcPut(s) ==
  /\ UNCHANGED nonMainVars
  /\ b_proc = "alive"
  /\ ~Failed
  /\ b_sent < MaxSent
  /\ Len(b_pipes[s]) < PipeCap
  /\ b_pipes' = [b_pipes EXCEPT ![s] = Append(@, Package)]
  /\ b_sent' = b_sent + 1
  /\ UNCHANGED <<b_pc, b_num_iterations, b_received, b_i, b_proc, b_stop,
                 b_exc, b_calls, b_file>>

\* an exception inside the client process: its envelope is written to the
\* output pipe of source s
ProcFail(s) ==
  /\ UNCHANGED nonMainVars
  /\ b_proc = "alive"
  /\ ~Failed
  /\ b_sent < MaxSent
  /\ Len(b_pipes[s]) < PipeCap
  /\ b_pipes' = [b_pipes EXCEPT ![s] = Append(@, Wrapped)]
  /\ b_sent' = b_sent + 1
  /\ UNCHANGED <<b_pc, b_num_iterations, b_received, b_i, b_proc, b_stop,
                 b_exc, b_calls, b_file>>

\* the client process ends: it saw its stop event or was terminated
ProcEnds ==
  /\ UNCHANGED nonMainVars
  /\ b_proc = "alive"
  /\ b_stop
  /\ b_proc' = "exited"
  /\ UNCHANGED <<b_pc, b_num_iterations, b_received, b_i, b_pipes, b_stop,
                 b_exc, b_sent, b_calls, b_file>>

NextMain ==
  \/ MainStart \/ MainPoll \/ MainProgress
  \/ MainStop \/ MainJoin \/ MainClose \/ MainClose2
  \/ \E s \in Sources : ProcPut(s) \/ ProcFail(s)
  \/ ProcEnds

\* ======================================================================
\* Specifications
\* ======================================================================
Init ==
  PipeInit /\ MetricIdle /\ ServerIdle /\ ClientIdle /\ AccessorIdle
    /\ FrameIdle /\ MainIdle
Next == PipeNext
Spec == Init /\ [][Next]_vars

InitLife ==
  PipeInit /\ MetricIdle /\ ServerIdle /\ ClientIdle /\ AccessorIdle
    /\ FrameIdle /\ MainIdle
SpecLife == InitLife /\ [][LifeNext]_vars

InitReset ==
  StartedInit /\ MetricIdle /\ ServerIdle /\ ClientIdle /\ AccessorIdle
    /\ FrameIdle /\ MainIdle
SpecReset == InitReset /\ [][ResetNext]_vars

\* the steps reset() takes by itself once it was called
ResetSteps ==
  \/ ResetPause \/ ResetDrainPipes \/ ResetPut \/ ResetJoin
  \/ ResetGetReply \/ ResetDrainMetric \/ ResetResume

\* the steps by which producer p handles a reset message
ProdHandles(p) == ProdTake(p) \/ ProdTaskDone(p) \/ ProdReply(p)

\* reset() of a started Pipeline where the caller keeps running and every
\* producer keeps handling the messages of its control queue
SpecResetFair ==
  /\ InitReset /\ [][ResetNext]_vars
  /\ WF_vars(ResetSteps)
  /\ \A p \in Procs : WF_vars(ProdHandles(p))

InitMetric ==
  PipeIdle /\ MetricInit /\ ServerIdle /\ ClientIdle /\ AccessorIdle
    /\ FrameIdle /\ MainIdle
NextMetric == MetricCall
SpecMetric == InitMetric /\ [][NextMetric]_vars

InitServer ==
  PipeIdle /\ MetricIdle /\ ServerInit /\ ClientIdle /\ AccessorIdle
    /\ FrameIdle /\ MainIdle
SpecServer == InitServer /\ [][NextServer]_vars

InitClient ==
  PipeIdle /\ MetricIdle /\ ServerIdle /\ ClientInit /\ AccessorIdle
    /\ FrameIdle /\ MainIdle
SpecClient == InitClient /\ [][NextClient]_vars

\* a Stat Writer of either kind
InitWriter ==
  /\ PipeIdle
  /\ MetricIdle
  /\ AccessorIdle
  /\ FrameIdle
  /\ MainIdle
  /\ \/ ServerInit /\ ClientIdle
     \/ ServerIdle /\ ClientInit
NextWriter == NextServer \/ NextClient
SpecWriter == InitWriter /\ [][NextWriter]_vars

\* a Stat Writer of either kind, over one model or one client
InitWriterOne ==
  /\ PipeIdle
  /\ MetricIdle
  /\ AccessorIdle
  /\ FrameIdle
  /\ MainIdle
  /\ \/ /\ \E cfg \in Configs : cfg.model_name = "a" /\ ServerNew(cfg)
        /\ ClientIdle
     \/ /\ ServerIdle
        /\ \E cfg \in ClientConfigs :
             Len(cfg.origins) = 1 /\ ClientAt("ready", cfg)

\* the thread of run() of the ServerStatsMonitor is scheduled again and
\* again, and every _get_values() returns or raises
ServerThread == ServerLoopEnter \/ ServerRunIter \/ ServerRunExit
SpecWriterFair ==
  InitWriterOne /\ [][NextWriter]_vars /\ WF_vars(ServerThread)

InitAccessor ==
  PipeIdle /\ MetricIdle /\ ServerIdle /\ ClientIdle /\ AccessorInit
    /\ FrameIdle /\ MainIdle
SpecAccessor == InitAccessor /\ [][NextAccessor]_vars

InitFrame ==
  PipeIdle /\ MetricIdle /\ ServerIdle /\ ClientIdle /\ AccessorIdle
    /\ FrameInit /\ MainIdle
SpecFrame == InitFrame /\ [][NextFrame]_vars

InitMain ==
  PipeIdle /\ MetricIdle /\ ServerIdle /\ ClientIdle /\ AccessorIdle
    /\ FrameIdle /\ MainInit
\* main is scheduled again and again
SpecMainFair == InitMain /\ [][NextMain]_vars /\ WF_vars(MainStep)

\* ======================================================================
\* Properties of the Pipeline
\* ======================================================================
\* reset() has returned to the caller
ResetReturned == pc = "idle" /\ callOp = "reset" /\ callResult = "ok"

\* the ring-buffer producers among the managed processes
LLFGs == {p \in Procs : isLLFG[p]}

\* C1, as stated: reset() is a full barrier, no process is resumed before
\* every managed process has marked its reset message done.
C1_FullBarrier ==
  (\E p \in Procs : resumed[p]) => (\A q \in Procs : ackd[q])

\* C1, amended: a process is resumed only after it, and every process before
\* it in the list, has marked its reset message done.
C1_ResumeAfterOwnAck ==
  \A p \in Procs : resumed[p] => (\A q \in 1..p : ackd[q])

\* C1 witness: a reset has resumed every process and returned.
C1_Witness == ResetReturned /\ (\A p \in Procs : resumed[p] /\ ackd[p])

\* C2: when get() raises, cleanup has reached every managed process, stop
\* was invoked on every process it found alive, and none is left running.
C2_GetCleansAll ==
  (callOp = "get" /\ callResult = "raised") =>
    \A p \in Procs : /\ visited[p]
                     /\ wasAlive[p] => stopInvoked[p]
                     /\ pstate[p] # "alive"

\* C3: a cleanup that is over has attempted every process of the list and
\* has raised nothing.
C3_BestEffort ==
  cleanupEnded => (~cleanupRaised /\ (\A p \in Procs : visited[p]))

\* C4: when reset() has returned, the first ring-buffer producer was
\* proposed t0 = None, every later one was proposed the first one's reply,
\* every reply equals the first reply, and all of them hold that t0.
C4_SameT0 ==
  ResetReturned =>
    \A p \in LLFGs :
      LET first == CHOOSE f \in LLFGs : \A g \in LLFGs : f <= g
      IN  /\ proposed[first] = None
          /\ p # first => proposed[p] = replies[first]
          /\ replies[p] = replies[first]
          /\ replies[p] \in T0Values
          /\ t0_held[p] = replies[first]

\* C4 witness: a reset of two or more ring-buffer producers has returned.
C4_Witness ==
  /\ ResetReturned
  /\ \E p, q \in LLFGs : p # q /\ replies[p] = replies[q] /\ replies[p] # None

\* C5, as stated: when reset() returns every metric queue is empty.
C5_MetricEmpty ==
  ResetReturned => (\A p \in Procs : retMetric[p] = <<>>)

\* C5, amended: when reset() returns no metric queue holds a tuple produced
\* before its producer was paused; what a queue holds was put there by its
\* producer after this reset resumed it.
C5_NoStaleTuple ==
  ResetReturned =>
    \A p \in Procs : \A k \in 1..Len(retMetric[p]) : retMetric[p][k] = "new"

\* C5 witness: a reset that took stale tuples off a metric queue returns
\* while the queue of a producer resumed earlier is no longer empty.
C5_Witness ==
  /\ ResetReturned
  /\ \E p \in Procs : discarded[p]
  /\ \E p \in Procs : retMetric[p] # <<>>

\* C6: start() is invoked only on a process that is not alive, and on no
\* process more than once.
C6_StartOnce ==
  /\ ~startedAlive
  /\ \A p \in Procs : startCount[p] <= 1

\* C6 witness: an __enter__ that examined a process that had run and exited
\* has returned, and that process was started once.
C6_Witness ==
  /\ callOp = "enter" /\ callResult = "ok" /\ pc = "idle"
  /\ enterSawExited
  /\ \E p \in Procs : pstate[p] = "exited" /\ startCount[p] = 1

\* a managed process that runs: started, not ended, not paused
Running(p) == pstate[p] = "alive" /\ ~paused[p]

\* C7: Stopped is terminal, once __exit__ is over no step of enter, get or
\* reset starts or resumes a managed process.
C7_StoppedTerminal ==
  [][exitEnded => (\A p \in Procs : Running(p)' => Running(p))]_vars

\* ======================================================================
\* Properties of ServerInferenceMetric
\* ======================================================================
\* the stored (count, ns) after the k-th call of update()
MetricAfter(k) ==
  IF k < Len(m_args) THEN m_before[k + 1] ELSE [count |-> m_count, ns |-> m_ns]

\* the snapshots of the example: counts [0,10,10,25], times [0,100,100,250]
ExampleSnapshots ==
  << [count |-> 0, ns |-> 0], [count |-> 10, ns |-> 100],
     [count |-> 10, ns |-> 100], [count |-> 25, ns |-> 250] >>

\* C8: a call of update(count, ns) with a count other than the stored one
\* returns the quotient (ns - stored ns) / (count - stored count) with the
\* count difference and stores (count, ns); with the stored count it returns
\* nothing and stores nothing. The example's snapshots yield 10, nothing, 10.
C8_Update ==
  /\ \A k \in 1..Len(m_args) :
       LET a == m_args[k]
           b == m_before[k]
           r == m_rets[k]
       IN  IF a.count # b.count
             THEN /\ r.kind = "data"
                  /\ r.n = a.count - b.count
                  /\ r.avg.den > 0
                  /\ r.avg.num * (a.count - b.count) = (a.ns - b.ns) * r.avg.den
                  /\ MetricAfter(k) = a
             ELSE /\ r = NoData
                  /\ MetricAfter(k) = b
  /\ m_args = ExampleSnapshots =>
       /\ m_rets[2].kind = "data" /\ m_rets[2].avg = [num |-> 10, den |-> 1]
       /\ m_rets[3] = NoData
       /\ m_rets[4].kind = "data" /\ m_rets[4].avg = [num |-> 10, den |-> 1]

\* C8 witness: the example's four snapshots have been fed, the third call
\* returned nothing and the metric holds (25, 250).
C8_Witness ==
  /\ m_args = ExampleSnapshots
  /\ m_rets[3] = NoData
  /\ m_count = 25 /\ m_ns = 250


\* ======================================================================
\* Properties of ThreadedStatWriter and ServerStatsMonitor
\* ======================================================================
\* a poll of run() has raised UnstableQueueException
Breached == s_breachPoll > 0

\* C9: in the first poll of run() where a monitored model's queue average
\* exceeds the limit, the monitor stops (the stop event is set and no later
\* poll is made), no row computed in that poll is written to the sink, and
\* the sink holds exactly the header and then the rows returned by the
\* earlier polls
C9_CircuitBreaker ==
  Breached =>
    /\ s_stopped
    /\ s_polls = s_breachPoll
    /\ \A i \in 1..Len(s_sink) : s_sink[i].poll # s_breachPoll
    /\ \A i \in 1..Len(s_returned) : s_returned[i].poll < s_breachPoll
    /\ Len(s_sink) = 1 + Len(s_returned)
    /\ s_sink[1] = HeaderLine
    /\ Tail(s_sink) = s_returned

\* the queue averages of model "a" in the data lines of the sink
QueueCells == [i \in 1..Len(s_returned) |-> s_returned[i].cells[2]]

\* C9 (witness): limit 200 on the queue of the only model, averages 100 on
\* polls 1 and 2, 250 on poll 3; run() has returned and the sink holds the
\* header and exactly two data rows
C9_Witness ==
  /\ s_phase = "done"
  /\ s_models = <<"a">> /\ s_monitor = {"a"} /\ s_limit = 200
  /\ s_breachPoll = 3
  /\ s_errPut = <<ErrValue(Quot(250, 1))>>
  /\ QueueCells = <<Quot(100, 1), Quot(100, 1)>>
  /\ Len(s_sink) = 3

\* C10 (as stated): when the writer stops because of UnstableQueueException
\* its error channel is empty and the error accessor returns nothing
C10_NoErrorSurfaced ==
  s_stopCause = "unstable" => (s_error_q = <<>> /\ s_errGot = <<>>)

\* C10 (amended): when the writer stops because of UnstableQueueException,
\* run() puts no exception on the error channel; all that was ever put on
\* it is the breaching queue average, a number above the limit; and an
\* exception on the error channel always means that the task stopped due
\* to a fault
C10_BreachValueOnly ==
  /\ s_stopCause = "unstable" =>
        /\ Len(s_errPut) = 1
        /\ s_errPut[1].kind = "value"
        /\ Greater(s_errPut[1].val, s_limit)
        /\ s_errGot \o s_error_q = s_errPut
  /\ \A i \in 1..Len(s_errPut) :
        s_errPut[i].kind = "exception" => s_stopCause = "fault"

\* C10 (witness): the writer has stopped because of the breach, run() has
\* returned, and the error accessor has returned the breaching average
C10_Witness ==
  /\ s_stopCause = "unstable"
  /\ s_phase = "done"
  /\ s_errGot # <<>>
  /\ s_errGot[1].kind = "value"

\* ServerStatsMonitor.__init__ raised, and not because of its arguments
\* (a monitor without a limit): its first _get_values() raised
CtorGetValuesRaised ==
  /\ s_phase = "failed"
  /\ ~(s_cfg.monitor # "none" /\ s_cfg.limit = None)

\* C13 (as stated): a fault raised while the Stat Writer computes its values
\* (missing model, transport failure, threshold condition) is never raised
\* into the caller's thread of control, at construction, start or stop
C13_NeverRaisedIntoCaller == ~CtorGetValuesRaised

\* C16 (as stated): in a poll of run() whose response leaves a model's
\* request count unchanged since the previous poll, no row is emitted for
\* that model, no error is raised or put on the error channel, and the
\* monitor keeps running
C16_UnchangedSkipsModel ==
  (s_last.kind = "ok" /\ s_last.missing = "none") =>
    \A m \in s_last.unchanged :
      /\ \A i \in 1..Len(s_returned) :
           ~(s_returned[i].poll = s_polls /\ s_returned[i].cells[7] = m)
      /\ s_last.outcome \in {"rows", "none"}

\* ======================================================================
\* Properties of ClientStatsMonitor
\* ======================================================================
\* C12: when an iteration of the loop of run() produces a row whose number
\* of values differs from the number of columns, that row is not written
\* to the sink (every line of the sink has the length of the columns, and
\* of that iteration only the rows before it are written), the writer
\* stops with no further iteration, and the ValueError is what the error
\* channel holds or the error accessor has returned
C12_MalformedRow ==
  /\ \A i \in 1..Len(c_sink) : Len(c_sink[i].cells) = Len(client_columns)
  /\ c_bad # <<>> =>
       /\ Len(c_bad) = 1
       /\ c_polls = c_bad[1]
       /\ c_stopped
       /\ c_pc = "check"
       /\ c_errPut = <<ErrException("ValueError")>>
       /\ c_errGot \o c_error_q = c_errPut
       /\ \E k \in 1..Len(c_returned) :
            /\ c_returned[k].poll = c_bad[1]
            /\ Len(c_returned[k].cells) # Len(client_columns)
            /\ Tail(c_sink) = SubSeq(c_returned, 1, k - 1)

\* C12 (witness): the second row of an iteration was refused after its first
\* row was written; run() has returned and the error accessor has returned
\* the ValueError
C12_Witness ==
  /\ c_bad # <<>>
  /\ c_phase = "done"
  /\ c_errGot = <<ErrException("ValueError")>>
  /\ \E i \in 1..Len(c_sink) : c_sink[i].poll = c_bad[1]

\* the data tuples removed from the metric queues, in the order of removal
DataConsumed == SelectSeq(c_consumed, LAMBDA e : e.item.kind = "data")

\* the latency of a tuple: its last timestamp minus its first
LatencyOf(item) == item.ts[Len(item.ts)] - item.ts[1]

\* the sum of the latencies of the first k tuples of d
RECURSIVE SumLatency(_, _)
SumLatency(d, k) ==
  IF k = 0 THEN 0 ELSE SumLatency(d, k - 1) + LatencyOf(d[k].item)

\* C17: after the start_time tuple and k data tuples have been consumed,
\* the processed count n is k, and the running latency after the j-th of
\* them was the arithmetic mean of the first j latencies (last timestamp
\* minus first timestamp), for every j up to k
C17_RunningLatency ==
  LET d == DataConsumed
  IN  /\ c_n = Len(d)
      /\ Len(c_means) = Len(d)
      /\ \A j \in 1..Len(d) : c_means[j] = Quot(SumLatency(d, j), j)
      /\ c_latency = IF Len(d) = 0 THEN Quot(0, 1) ELSE c_means[Len(d)]

\* C17 (witness): ("start_time", 0), then (0,1), (0,2), (0,3) have been
\* consumed, and the running latency was 1, 1.5 and 2 after each
C17_Witness ==
  /\ Len(c_consumed) = 4
  /\ c_consumed[1].item = [kind |-> "start_time", ts |-> <<0>>]
  /\ [j \in 1..3 |-> DataConsumed[j].item.ts] = <<<<0, 1>>, <<0, 2>>, <<0, 3>>>>
  /\ c_n = 3
  /\ c_means = <<Quot(1, 1), Quot(3, 2), Quot(2, 1)>>

\* C18 (as stated): the Client Stats Monitor emits exactly one output row
\* for every data tuple it removes from a metric channel, and none for a
\* start_time tuple: between two iterations of a run() that met no fault,
\* the sink holds as many data lines as data tuples were removed
C18_RowPerTuple ==
  (c_phase \in {"running", "done"} /\ c_pc = "check" /\ c_errPut = <<>>) =>
    Len(c_sink) - 1 = Len(DataConsumed)

\* C19 (as stated): every timestamp in a row emitted for client p is the
\* raw timestamp of the tuple minus the origin announced by p's own
\* start_time tuple
C19_OwnOrigin ==
  \A k \in 1..Len(c_returned) :
    LET line == c_returned[k]
        p == line.cells[1]
    IN  \E j \in 1..Len(c_consumed) :
          LET e == c_consumed[j]
          IN  /\ e.poll = line.poll
              /\ e.client = p
              /\ e.item.kind = "data"
              /\ Tail(line.cells) =
                   [h \in 1..Len(e.item.ts) |-> e.item.ts[h] - c_cfg.origins[p]]

\* ======================================================================
\* Properties of ThreadedStatWriter, in both monitors
\* ======================================================================
\* C11: in every reachable state of a Stat Writer (Server or Client
\* monitor), at most one value has ever been put on its error channel
C11_AtMostOneError == Len(s_errPut) <= 1 /\ Len(c_errPut) <= 1

\* C11 (witness): a poll of a ServerStatsMonitor has put the breaching
\* average on the error channel and raised, and run() has handled the
\* UnstableQueueException and returned
C11_Witness ==
  /\ s_phase = "done"
  /\ s_stopCause = "unstable"
  /\ Len(s_errPut) = 1

\* the sink of each monitor is open exactly while run() is in its loop
SinkOpenInLoop ==
  /\ s_file_open <=> s_phase = "running"
  /\ c_file_open <=> c_phase = "running"

\* a step that adds nothing to a sink that is not open
NoWriteWhenClosed ==
  /\ ~s_file_open' => (s_sink' = s_sink)
  /\ ~c_file_open' => (c_sink' = c_sink)

\* C14: the sink of a Stat Writer is open exactly while its loop runs: on
\* every way the loop ends (stop requested, threshold condition, fault in
\* computing values, malformed row) run() returns with the sink closed, and
\* no step writes to a sink that is closed
C14_SinkDiscipline == []SinkOpenInLoop /\ [][NoWriteWhenClosed]_vars

\* C14 (witness): run() of a ClientStatsMonitor has returned after
\* write_row refused a row, with lines written before, and the sink is
\* closed
C14_Witness ==
  /\ c_phase = "done"
  /\ c_bad # <<>>
  /\ Len(c_sink) > 1
  /\ ~c_file_open

\* stop() called, in any way, stays called
StopStays ==
  /\ s_stopped => s_stopped'
  /\ c_stopped => c_stopped'

\* once stop() has been called the loop starts no new iteration
NoNewIteration ==
  /\ s_stopped => ~(s_pc = "check" /\ s_pc' = "body")
  /\ c_stopped => ~(c_pc = "check" /\ c_pc' = "body")

\* run() returns only after stop() was called, by the owner or by one of its
\* except clauses
ExitOnlyStopped ==
  /\ (s_phase = "running" /\ s_phase' = "done") => s_stopped
  /\ (c_phase = "running" /\ c_phase' = "done") => c_stopped

\* C15: a started Stat Writer leaves its loop only once stop() has been
\* called (by its owner, or by the except clause that handles a fault or
\* the threshold condition); once stop() has been called the loop starts
\* no new iteration after the one in progress; and run() eventually
\* returns, given that its thread is scheduled and every _get_values()
\* returns or raises (run() is the same in both monitors; its termination
\* is followed in the ServerStatsMonitor)
C15_StopEndsLoop ==
  /\ [][StopStays /\ NoNewIteration /\ ExitOnlyStopped]_vars
  /\ (s_phase = "running" /\ s_stopped) ~> (s_phase = "done")

\* C15 (witness): the owner of a ServerStatsMonitor called stop() while the
\* loop was running, no except clause did, and run() has returned after
\* iterations that wrote rows
C15_Witness ==
  /\ s_phase = "done"
  /\ s_stopped
  /\ s_stopCause = "none"
  /\ s_polls >= 2
  /\ Len(s_sink) > 1


\* ======================================================================
\* Properties of the accessors of ClientStatsMonitor
\* ======================================================================
\* the sum of the latencies of the first k data tuples
RECURSIVE LatencySum(_)
LatencySum(k) ==
  IF k = 0 THEN 0
  ELSE LatencySum(k - 1) + (Measured(k)[4] - Measured(k)[1])

\* the k-th value published on the queue of an accessor: k tuples over
\* the time of the k-th, and the mean of the first k latencies
PublishedAt(kind, k) ==
  CASE kind = "throughput" -> Quot(k, Measured(k)[4])
    [] kind = "request_rate" -> Quot(k, Measured(k)[2])
    [] kind = "latency" -> Quot(LatencySum(k), k)

C20_Returned ==
  a_ret # NoRet =>
    /\ a_ret.removed \in 0..DrainRange
    /\ a_ret.removed < DrainRange => a_ret.left = 0
    /\ a_ret.ret =
         IF a_ret.removed = 0
           THEN ReturnOf(a_kind, Quot(0, 1))
           ELSE ReturnOf(a_kind,
                         PublishedAt(a_kind, a_ret.published - a_ret.left))

\* every get_nowait() of the loop returns or raises Empty at once, and the
\* loop makes at most DrainRange of them
C20_NeverBlocks ==
  a_pc = "loop" => (a_i < DrainRange /\ ENABLED AccessorIter)

ReturnsNonePending == a_pc = "loop" /\ a_pc' = "idle" /\ a_ret'.removed = 0

\* C21: a call of an accessor that finds no published value pending
\* returns what the previous call returned, and returns zero only if no
\* value has ever been published
C21_PriorValue ==
  [][ReturnsNonePending =>
       /\ a_ret # NoRet => a_ret'.ret = a_ret.ret
       /\ a_ret'.ret = ReturnOf(a_kind, Quot(0, 1)) => a_n = 0]_vars


\* ======================================================================
\* Properties of GCPFrameDataGenerator and read_frames
\* ======================================================================
RECURSIVE Flatten(_)
Flatten(blocks) ==
  IF blocks = <<>> THEN <<>> ELSE Head(blocks) \o Flatten(Tail(blocks))

IsPackage(e) == e.op = "next" /\ e.kind = "package"
Packages == SelectSeq(g_log, IsPackage)

\* C22: the windows returned by the calls of __next__ are, in order, the
\* consecutive chunks of step samples (all channels) of the concatenation
\* of the blocks taken from the queue, and every call that took a block
\* returned a window, so that no sample of a block is dropped
C22_Slicing ==
  /\ \A k \in 1..Len(Packages) :
       Packages[k].window =
         [rows |-> 1..Channels,
          cols |-> SubSeq(Flatten(g_taken), (k - 1) * g_cfg.step + 1,
                          k * g_cfg.step)]
  /\ \A j \in 1..Len(g_log) : g_log[j].took => g_log[j].kind = "package"

\* C23: __next__ raises StopIteration only when the process of
\* read_frames has exited and no block it put on the queue is left there
C23_ExhaustionLosesNoBlock ==
  \A j \in 1..Len(g_log) :
    g_log[j].kind = "StopIteration" =>
      /\ ~g_log[j].alive
      /\ \A h \in 1..Len(g_log[j].pending) :
           g_log[j].pending[h].kind # "block"

\* C24: __next__ never raises StopIteration in place of the error of
\* read_frames: not while the ExceptionWrapper of that error is on the
\* queue
C24_FaultNotExhaustion ==
  \A j \in 1..Len(g_log) :
    g_log[j].kind = "StopIteration" =>
      \A h \in 1..Len(g_log[j].pending) :
        g_log[j].pending[h].kind # "envelope"

\* C25: every call of stop() returns without raising, before __iter__ and
\* after an earlier stop() as well
C25_StopIdempotent ==
  \A j \in 1..Len(g_log) :
    g_log[j].op = "stop" => g_log[j].kind = "returned"

\* C26: when stop() returns on a started generator, the process of
\* read_frames is not running
C26_NotRunningAfterStop ==
  \A j \in 1..Len(g_log) :
    (g_log[j].op = "stop" /\ g_log[j].kind = "returned") => ~g_log[j].alive

\* C27: once the stop event is set, read_frames, wherever it is, has a
\* step of its own to take until its process exits, whether or not the
\* queue is drained
C27_ExitsOnItsOwn ==
  (g_stop_event /\ FetchAlive) => ENABLED FetchStep

C29_FullWindow ==
  \A j \in 1..Len(g_log) :
    /\ g_log[j].took =>
         (~g_log[j].buffer.none /\ Len(g_log[j].buffer.cols) >= g_cfg.step)
    /\ IsPackage(g_log[j]) => Len(g_log[j].window.cols) = g_cfg.step


\* ======================================================================
\* The order of the steps of Pipeline.reset()
\* ======================================================================
\* reset() reads an out pipe empty only once every process has been paused
DrainAfterPause ==
  (callOp = "reset" /\ callResult = "running"
     /\ \E p \in Procs : out_pipe[p] /\ ~out_pipe'[p]) =>
    (pc = "R_pipes" /\ \A p \in Procs : paused[p])

\* a reset message is put on the control queue of process p
ResetSent(p) ==
  /\ Len(in_q'[p]) = Len(in_q[p]) + 1
  /\ in_q'[p][Len(in_q'[p])].kind \in {"reset", "resetplain"}

\* reset() sends its first reset message with every out pipe read empty
\* and every process paused, and sends reset messages nowhere but after
\* that
PutAfterDrain ==
  (\E p \in Procs : ResetSent(p)) =>
    /\ pc = "R_put"
    /\ ResetSent(idx)
    /\ idx = 1 => (out_pipe = AllFalse /\ \A p \in Procs : paused[p])

\* reset() empties the metric queue of a process once that process has
\* marked its reset message done, and while it is still paused
MetricAfterAck ==
  (pc = "R_metric" /\ pc' = "R_resume") =>
    (ackd[idx] /\ paused[idx] /\ ~resumed[idx])

\* reset() resumes a process with its metric queue emptied
ResumeAfterMetric ==
  (\E p \in Procs : resumed'[p] /\ ~resumed[p]) =>
    (pc = "R_resume" /\ ackd[idx] /\ metric_q[idx] = <<>>)

\* C30: inside Pipeline.reset() every process is paused before any out
\* pipe is drained, every out pipe is drained before any reset message is
\* sent, and the metric queue of each process is drained after the process
\* acknowledged its reset message and before it is resumed
C30_ResetOrder ==
  [][DrainAfterPause /\ PutAfterDrain /\ MetricAfterAck
       /\ ResumeAfterMetric]_vars

\* C30 (witness): reset() has returned after it took measurement tuples
\* off the metric queue of every process
C30_Witness ==
  /\ ResetReturned
  /\ \A p \in Procs : resumed[p] /\ ackd[p] /\ discarded[p]

\* ======================================================================
\* Termination of Pipeline.reset() on the shared control queue
\* ======================================================================
\* a reset() is under way
ResetRunning == callOp = "reset" /\ callResult = "running"

\* reset() waits inside process._in_q.join() for a task_done() that no one is
\* left to make: the producer has taken the reset message, marked it done and
\* put its reply before join() was entered, so the count join() waits on is
\* that of the reply, which reset() itself marks done only after join()
JoinStuck ==
  /\ pc = "R_joinwait"
  /\ ppc[idx] = "run"
  /\ \A k \in 1..Len(in_q[idx]) : in_q[idx][k].kind = "reply"

\* what reset() takes as the reply is a reply: never a reset message
ReplyIsReply ==
  pc = "R_reply" /\ in_q[idx] # <<>> => Head(in_q[idx]).kind = "reply"

\* C31: with producers that take a reset message, mark it done and (ring
\* buffer) put their t0 reply on the same queue, every reset() that was called
\* returns with every process resumed, and what it takes as the reply is never
\* the reset message it put itself
C31_ResetTerminates ==
  /\ [](ReplyIsReply)
  /\ ResetRunning ~> (ResetReturned /\ \A p \in Procs : resumed[p])

\* ======================================================================
\* Repeated Pipeline.cleanup()
\* ======================================================================
\* cleanup() is inside the body of its loop for process idx: stop() was
\* invoked, or join(0.5), close() or terminate() is the next call
InLoopBody == pc \in {"C_join", "C_close", "C_close2"}

\* a later cleanup invokes nothing on a process that is closed
NoCallOnClosed == cleanedBefore /\ InLoopBody => pstate[idx] # "closed"

\* a later cleanup raises nothing
LaterCleanupRaisesNothing ==
  cleanedBefore /\ ~cleanupRaised => ~cleanupRaised'

\* stop() is invoked only on a process that is alive
StopOnlyAlive ==
  \A p \in Procs : stopInvoked'[p] /\ ~stopInvoked[p] => IsAlive(p)

\* terminate() is next only after close() of the same process has failed
TerminateAfterFailedClose ==
  pc' = "C_close2" /\ pc # "C_close2" =>
    pc = "C_close" /\ idx' = idx /\ IsAlive(idx)

\* C32: a cleanup that runs after an earlier one is over calls nothing on a
\* closed process and raises nothing; in every cleanup stop() is invoked only
\* on a live process and terminate() only after a failed close().
C32_CleanupIdempotent ==
  [][/\ NoCallOnClosed /\ NoCallOnClosed'
     /\ LaterCleanupRaisesNothing
     /\ StopOnlyAlive
     /\ TerminateAfterFailedClose]_vars

\* ======================================================================
\* Rows of an ensemble in ServerStatsMonitor
\* ======================================================================
\* the step is a poll of run() whose response held the rows of every model
\* and in which no threshold was breached
QuietPoll ==
  /\ s_polls' = s_polls + 1
  /\ s_last'.kind = "ok" /\ s_last'.missing = "none"
  /\ s_last'.outcome # "unstable"

\* the poll has moved the Running Metrics of model m
Advanced(m) == s_stats'[m] # s_stats[m]

\* the poll has written a row of model m to the sink
RowWritten(m) ==
  \E i \in 1..Len(s_sink') :
    s_sink'[i].poll = s_polls' /\ s_sink'[i].cells[7] = m

\* C33: every poll without a breach that advances the Running Metrics of a
\* model writes a row for that model in the same poll, whatever the counts
\* of the other models of the ensemble.
C33_AdvanceWritesRow ==
  [][QuietPoll => \A m \in SeqRange(s_models) : Advanced(m) => RowWritten(m)]_vars

\* ======================================================================
\* Termination of the receive loop of main
\* ======================================================================
\* main is over: it has returned, or an exception has left it
MainOver == b_pc \in {"done", "raised"}

\* what main has called on its client: start, and the shutdown of the
\* finally block, with terminate and a second close when close has failed
Graceful == <<"start", "stop", "join", "close">>
ShutDown == b_calls \in {Graceful, Graceful \o <<"terminate", "close">>}

\* num_iterations packages have been received
Enough == b_received >= b_num_iterations

\* a package is received only while fewer than num_iterations were
StopsReceiving ==
  [][b_received' > b_received => b_received < b_num_iterations]_vars

\* C34: once num_iterations packages have been received the loop of main
\* receives no more and ends, the client is stopped, joined and closed
\* (terminated if close fails) before the statistics file is written, and
\* the same shutdown runs when an envelope's exception ends the loop.
C34_ReceiveLoopTerminates ==
  /\ StopsReceiving
  /\ Enough ~> (MainOver /\ ShutDown)
  /\ [](b_file => ShutDown /\ b_proc = "closed")
  /\ (b_exc = "reraised") ~> (MainOver /\ ShutDown)

====
